---- MODULE Spec2Model ----
(***************************************************************************)
(* The balance engine of the Redis store of the Interledger node           *)
(* (crates/interledger-store/src/redis/mod.rs).                            *)
(*                                                                         *)
(* One account is modelled together with the Redis keys its balance        *)
(* operations touch: the hash accounts:{id} (balance, prepaid_amount and   *)
(* the settlement settings the scripts read) and the idempotency keys of   *)
(* incoming settlements.                                                   *)
(*                                                                         *)
(* Every balance operation of RedisStore is one round trip that invokes a  *)
(* Lua script; Redis runs a script atomically, so each call has exactly    *)
(* one step that reads or writes the store.  Calls issued concurrently by  *)
(* several tasks are therefore modelled as the script steps taken in any   *)
(* order: Next chooses the next call freely.                               *)
(*                                                                         *)
(* The Lua files (lua/process_prepare.lua, ...) are loaded with            *)
(* include_str! and are not part of the source tree at hand; the operators *)
(* PROCESS_* and REFUND_SETTLEMENT follow section 4.4 of the specification.*)
(* The Rust wrappers around them follow the source.                        *)
(***************************************************************************)
EXTENDS Integers, FiniteSets, Sequences, TLC

\* ------------------------------------------------------------------ bounds
\* The signed 64-bit range is scaled down to -(MaxInt+1) .. MaxInt, and the
\* unsigned 64-bit range to 0 .. 2*MaxInt+1, so that overflow is reachable.
MaxInt == 4
\* Amounts passed to the balance operations are 0 .. MaxAmount.
MaxAmount == 3

I64_MAX == MaxInt
I64_MIN == -MaxInt - 1
U64_MOD == 2 * MaxInt + 2
U64_MAX == U64_MOD - 1

InI64(v) == I64_MIN <= v /\ v <= I64_MAX

\* The largest scale of a leftover entry (u8 in the code) and the entries that
\* callers save before the list is read again.
MaxScale == 2
MaxEntries == 2

\* The prepares that the connector sends for the account.
MaxPrepares == 3

\* The calls on the leftovers of one account that run next to each other.
MaxLedgerCalls == 4

\* The insert_account calls that one client makes.
MaxInserts == 2

\* The pubsub messages that reach the worker.
MaxMessages == 2

\* The bytes of an input hash ([u8; 32] in the code).
HashLen == 2

\* The writes that other stores make to the route sources, and the handles
\* (clones) of the store.
MaxWrites == 2
MaxHandles == 2

\* ----------------------------------------------------------- option values
None == <<>>
Some(x) == <<x>>
IsSome(o) == o # <<>>
Val(o) == o[1]

\* ------------------------------------------------------------------ inputs
Amounts == 0 .. MaxAmount
IdempotencyKeys == {"k1", "k2"}
\* AccountDetails of the inserted account: the credit line ...
MinBalances == {None, Some(-3)}
\* ... and the settlement policy (settle_threshold, settle_to).
SettlePolicies == {<<None, None>>, <<Some(3), Some(1)>>}
\* AccountSettings.settle_to values given to modify_account_settings.
NewSettleTos == {3, 4, U64_MAX}

VARIABLES
    redis,   \* the backend: [account |-> the hash accounts:{id}, idempotency |-> keys set]
    last,    \* the last call made on the store and what it returned
    issued,  \* idempotency keys of the incoming settlements that returned Ok
    tasks,   \* the concurrent callers of the balance operations, one call each
    order,   \* the tasks whose script the backend has run, in the order it ran them
    kv,      \* the backend keys of the account registry and of the routes
    routes,  \* RedisStore.routes, the routing table cache: prefix -> id
    ilp_address,  \* RedisStore.ilp_address, the node's address
    reg,     \* the last registry or routing call made and what it returned
    poll,    \* the poll task of connect, its pipeline, and the handles of the store
    limits,  \* the rate-limit buckets limit:packets:{id} and limit:throughput:{id}
    idem,    \* the hashes idempotency-key:{key} with their time to live
    leftovers,  \* the list uncredited-amount:{id} of one account
    bus,     \* the subscriptions and the payment publisher of the store
    svc      \* the last call on these services and what it returned

\* The services next to the balances, the registry and the routes.
services == <<poll, limits, idem, leftovers, bus, svc>>

vars == <<redis, last, issued, tasks, order, kv, routes, ilp_address, reg,
          poll, limits, idem, leftovers, bus, svc>>

\* ------------------------------------------------- the Lua scripts (atomic)
\* A script's outcome: the store it leaves, the error it raised ("" for none)
\* and the integers it returns.
ScriptOk(db, ret) == [db |-> db, err |-> "", ret |-> ret]
ScriptErr(db, kind) == [db |-> db, err |-> kind, ret |-> <<>>]

\* A variant of PROCESS_PREPARE that debits before it checks min_balance, so
\* that a refused prepare has already written.
PROCESS_PREPARE_debit_first(db, amount) ==
    LET a == db.account
        from_prepaid == IF a.prepaid_amount >= amount THEN amount
                        ELSE IF a.prepaid_amount > 0 THEN a.prepaid_amount
                        ELSE 0
        prepaid_amount == a.prepaid_amount - from_prepaid
        balance == a.balance - (amount - from_prepaid)
        written == [db EXCEPT !.account.balance = balance,
                              !.account.prepaid_amount = prepaid_amount]
    IN  IF ~InI64(balance)
        THEN ScriptErr(db, "BalanceOverflow")
        ELSE IF IsSome(a.min_balance) /\ balance < Val(a.min_balance)
        THEN ScriptErr(written, "InsufficientBalance")
        ELSE ScriptOk(written, <<balance + prepaid_amount>>)

\* prepare: subtracts the amount from the balance, consuming prepaid_amount
\* first; fails when the new balance would fall below min_balance (when set);
\* returns the new balance + prepaid_amount.
PROCESS_PREPARE(db, amount) ==
    LET a == db.account
        from_prepaid == IF a.prepaid_amount >= amount THEN amount
                        ELSE IF a.prepaid_amount > 0 THEN a.prepaid_amount
                        ELSE 0
        prepaid_amount == a.prepaid_amount - from_prepaid
        balance == a.balance - (amount - from_prepaid)
    IN  IF IsSome(a.min_balance) /\ balance < Val(a.min_balance)
        THEN ScriptErr(db, "InsufficientBalance")
        ELSE IF ~InI64(balance)
        THEN ScriptErr(db, "BalanceOverflow")
        ELSE ScriptOk([db EXCEPT !.account.balance = balance,
                                 !.account.prepaid_amount = prepaid_amount],
                      <<balance + prepaid_amount>>)

\* fulfill: adds the amount to the balance; when settle_threshold is set and
\* the new balance has reached it, amount_to_settle = balance - settle_to is
\* taken off the balance; returns (new balance, amount_to_settle).
PROCESS_FULFILL(db, amount) ==
    LET a == db.account
        balance == a.balance + amount
    IN  IF ~InI64(balance)
        THEN ScriptErr(db, "BalanceOverflow")
        ELSE IF IsSome(a.settle_threshold) /\ balance >= Val(a.settle_threshold)
        THEN LET amount_to_settle == balance - Val(a.settle_to)
             IN  ScriptOk([db EXCEPT !.account.balance = balance - amount_to_settle],
                          <<balance - amount_to_settle, amount_to_settle>>)
        ELSE ScriptOk([db EXCEPT !.account.balance = balance], <<balance, 0>>)

\* reject: the inverse of prepare, adds the amount back to the balance.
PROCESS_REJECT(db, amount) ==
    LET a == db.account
        balance == a.balance + amount
    IN  IF ~InI64(balance)
        THEN ScriptErr(db, "BalanceOverflow")
        ELSE ScriptOk([db EXCEPT !.account.balance = balance],
                      <<balance + a.prepaid_amount>>)

\* refund-settlement: adds settle_amount back to the balance.
REFUND_SETTLEMENT(db, settle_amount) ==
    LET a == db.account
        balance == a.balance + settle_amount
    IN  IF ~InI64(balance)
        THEN ScriptErr(db, "BalanceOverflow")
        ELSE ScriptOk([db EXCEPT !.account.balance = balance], <<balance>>)

\* incoming-settlement: credits prepaid_amount (not balance) by the amount only
\* if the idempotency key has not been recorded before, and records the key.
PROCESS_INCOMING_SETTLEMENT(db, amount, idempotency_key) ==
    LET a == db.account
        prepaid_amount == a.prepaid_amount + amount
    IN  IF idempotency_key \in db.idempotency
        THEN ScriptOk(db, <<a.balance + a.prepaid_amount>>)
        ELSE IF ~InI64(prepaid_amount)
        THEN ScriptErr(db, "BalanceOverflow")
        ELSE ScriptOk([db EXCEPT !.account.prepaid_amount = prepaid_amount,
                                 !.idempotency = @ \cup {idempotency_key}],
                      <<a.balance + prepaid_amount>>)

\* --------------------------------------------------- the Rust side of a call
\* What a call hands back to its caller: the store after it, Ok or the error,
\* and the values of an Ok result (<<>> for the unit value).  A script error
\* reaches the caller through `?`.
\* reply keeps the script's own integers beside the decoded Rust values.
Returned(db, err, value, reply) ==
    [db |-> db, err |-> err, value |-> value, reply |-> reply]

\* The driver converts a script's integer reply to the annotated Rust type
\* with an integer cast: a reply outside the type's range wraps around.
DecodeI64(v) == ((v - I64_MIN) % U64_MOD) + I64_MIN
DecodeU64(v) == v % U64_MOD

\* A variant of update_balances_for_prepare that drops the script's error
\* (`let _ = ...` in place of `?`) and answers Ok.
update_balances_for_prepare_error_dropped(db, incoming_amount) ==
    IF incoming_amount = 0
    THEN Returned(db, "", <<>>, <<>>)
    ELSE LET r == PROCESS_PREPARE(db, incoming_amount)
         IN  Returned(r.db, "", <<>>, r.ret)

\* BalanceStore::update_balances_for_prepare
update_balances_for_prepare(db, incoming_amount) ==
    IF incoming_amount = 0
    THEN Returned(db, "", <<>>, <<>>)
    ELSE LET r == PROCESS_PREPARE(db, incoming_amount)
         IN  Returned(r.db, r.err, <<>>, r.ret)

\* A variant of update_balances_for_fulfill that reads the two integers of the
\* reply in the wrong order.
update_balances_for_fulfill_swapped(db, outgoing_amount) ==
    LET r == PROCESS_FULFILL(db, outgoing_amount)
    IN  IF r.err # ""
        THEN Returned(r.db, r.err, <<>>, r.ret)
        ELSE Returned(r.db, "", <<DecodeI64(r.ret[2]), DecodeU64(r.ret[1])>>, r.ret)

\* BalanceStore::update_balances_for_fulfill
update_balances_for_fulfill(db, outgoing_amount) ==
    LET r == PROCESS_FULFILL(db, outgoing_amount)
    IN  IF r.err # ""
        THEN Returned(r.db, r.err, <<>>, r.ret)
        ELSE Returned(r.db, "", <<DecodeI64(r.ret[1]), DecodeU64(r.ret[2])>>, r.ret)

\* A variant of update_balances_for_reject that invokes the prepare script, as
\* a copy of update_balances_for_prepare with the script name left unchanged.
update_balances_for_reject_wrong_script(db, incoming_amount) ==
    IF incoming_amount = 0
    THEN Returned(db, "", <<>>, <<>>)
    ELSE LET r == PROCESS_PREPARE(db, incoming_amount)
         IN  Returned(r.db, r.err, <<>>, r.ret)

\* BalanceStore::update_balances_for_reject
update_balances_for_reject(db, incoming_amount) ==
    IF incoming_amount = 0
    THEN Returned(db, "", <<>>, <<>>)
    ELSE LET r == PROCESS_REJECT(db, incoming_amount)
         IN  Returned(r.db, r.err, <<>>, r.ret)

\* A variant of update_balance_for_incoming_settlement that passes the same
\* third argument whatever the key (the account id in place of the key).
update_balance_for_incoming_settlement_fixed_key(db, amount, idempotency_key) ==
    IF ~IsSome(idempotency_key)
    THEN Returned(db, "panic", <<>>, <<>>)
    ELSE LET r == PROCESS_INCOMING_SETTLEMENT(db, amount, "account_id")
         IN  Returned(r.db, r.err, <<>>, r.ret)

\* A variant of update_balance_for_incoming_settlement that invokes the refund
\* script, which credits balance.
update_balance_for_incoming_settlement_wrong_script(db, amount, idempotency_key) ==
    IF ~IsSome(idempotency_key)
    THEN Returned(db, "panic", <<>>, <<>>)
    ELSE LET r == REFUND_SETTLEMENT(db, amount)
         IN  Returned(r.db, r.err, <<>>, r.ret)

\* SettlementStore::update_balance_for_incoming_settlement; the key is an
\* Option that the method unwraps.
update_balance_for_incoming_settlement(db, amount, idempotency_key) ==
    IF ~IsSome(idempotency_key)
    THEN Returned(db, "panic", <<>>, <<>>)
    ELSE LET r == PROCESS_INCOMING_SETTLEMENT(db, amount, Val(idempotency_key))
         IN  Returned(r.db, r.err, <<>>, r.ret)

\* BalanceStore::get_balance: reads the two counters and adds them as i64.  The
\* addition is unchecked: when the sum leaves the i64 range a build with
\* overflow checks panics and a build without them wraps, so both outcomes
\* are possible.
get_balance(db) ==
    LET balance == db.account.balance
        prepaid_amount == db.account.prepaid_amount
        sum == balance + prepaid_amount
    IN  IF InI64(sum)
        THEN {Returned(db, "", <<sum>>, <<balance, prepaid_amount>>)}
        ELSE {Returned(db, "panic", <<>>, <<balance, prepaid_amount>>),
              Returned(db, "", <<DecodeI64(sum)>>, <<balance, prepaid_amount>>)}

\* SettlementStore::refund_settlement
refund_settlement(db, settle_amount) ==
    LET r == REFUND_SETTLEMENT(db, settle_amount)
    IN  Returned(r.db, r.err, <<>>, r.ret)

\* NodeStore::modify_account_settings / RedisStore::redis_modify_account, for
\* the two settings the balance scripts read.  The pipeline is sent only after
\* the settle_to check, so a rejected call writes nothing.
modify_account_settings(db, settle_threshold, settle_to) ==
    IF IsSome(settle_to) /\ Val(settle_to) > I64_MAX
    THEN Returned(db, "InvalidAccount", <<>>, <<>>)
    ELSE Returned(
            [db EXCEPT
                !.account.settle_threshold =
                    IF IsSome(settle_threshold) THEN settle_threshold ELSE @,
                !.account.settle_to = IF IsSome(settle_to) THEN settle_to ELSE @],
            "", <<>>, <<>>)

\* ------------------------------------------------- the registry and the routes
\* The backend keys of the account registry and of the routing table:
\*   accounts, send_routes_to, receive_routes_from, btp_outgoing  sets of ids
\*   hash[id]                      the hash accounts:{id}
\*   usernames                     hash username -> id
\*   routes_current, routes_static hashes prefix -> id
\*   routes_default                string, an id
\*   parent                        string parent_node_account_address
\*   uncredited                    the ids whose list uncredited-amount:{id} exists
\* A hash is a map from the keys it holds; an ILP address or prefix is the
\* sequence of its segments, the empty prefix "" being <<>>.
Ids == {"id1", "id2"}
Usernames == {"alice", "bob"}

EmptyMap == <<>>
Put(map, k, v) == [x \in DOMAIN map \cup {k} |-> IF x = k THEN v ELSE map[x]]
Del(map, k) == [x \in DOMAIN map \ {k} |-> map[x]]
Get(map, k) == IF k \in DOMAIN map THEN Some(map[k]) ELSE None
\* The entries of `over` written over those of `under`.
Extend(under, over) ==
    [x \in DOMAIN under \cup DOMAIN over |->
        IF x \in DOMAIN over THEN over[x] ELSE under[x]]

\* The fields of accounts:{id} that the registry and the lookups read; a field
\* that is not in the hash is None, and a hash without fields does not exist.
NoHash ==
    [id |-> None, username |-> None, ilp_address |-> None,
     routing_relation |-> None, ilp_over_btp_url |-> None,
     ilp_over_http_incoming_token |-> None,
     ilp_over_btp_incoming_token |-> None, balance |-> None]

EmptyBackend ==
    [accounts |-> {}, hash |-> [i \in Ids |-> NoHash], usernames |-> EmptyMap,
     send_routes_to |-> {}, receive_routes_from |-> {}, btp_outgoing |-> {},
     routes_current |-> EmptyMap, routes_static |-> EmptyMap,
     routes_default |-> None, parent |-> None, uncredited |-> {}]

\* EXISTS accounts:{id}
exists_accounts_key(db, id) == db.hash[id] # NoHash

DEFAULT_ILP_ADDRESS == <<"local", "host">>

\* What a registry or routing call hands back: the backend and the routing
\* table cache after it, Ok ("") or the error, and the value of an Ok result.
Outcome(db, table, err, value) ==
    [db |-> db, routes |-> table, err |-> err, value |-> value]

\* Token encryption (crypto.rs): a ciphertext is not the token, and decrypting
\* it gives the token back.
encrypt_token(token) == <<"encrypted", token>>
decrypt_token(ciphertext) == ciphertext[2]
EncryptOption(o) == IF IsSome(o) THEN Some(encrypt_token(Val(o))) ELSE None
DecryptOption(o) == IF IsSome(o) THEN Some(decrypt_token(Val(o))) ELSE None

\* Account::encrypt_tokens and AccountWithEncryptedTokens::decrypt_tokens
encrypt_tokens(account) ==
    [account EXCEPT
        !.ilp_over_http_incoming_token = EncryptOption(@),
        !.ilp_over_btp_incoming_token = EncryptOption(@)]
decrypt_tokens(account) ==
    [account EXCEPT
        !.ilp_over_http_incoming_token = DecryptOption(@),
        !.ilp_over_btp_incoming_token = DecryptOption(@)]

\* Account::try_from(id, details, node address), for details that name their
\* ILP address: the account has the given id and the fields of the details.
try_from(id, details) ==
    [id |-> id, username |-> details.username, ilp_address |-> details.ilp_address,
     routing_relation |-> details.routing_relation,
     ilp_over_btp_url |-> details.ilp_over_btp_url,
     ilp_over_http_incoming_token |-> details.ilp_over_http_incoming_token,
     ilp_over_btp_incoming_token |-> details.ilp_over_btp_incoming_token]

\* Account::should_send_routes and Account::should_receive_routes: routes are
\* sent to children and peers and received from parents and peers.
should_send_routes(account) == account.routing_relation \in {"Child", "Peer"}
should_receive_routes(account) == account.routing_relation \in {"Parent", "Peer"}

\* HMSET accounts:{id} <account>: ToRedisArgs writes id, username, ilp_address
\* and routing_relation always and an optional field only when it is Some, so
\* an optional field the hash already has stays when the account has none.
HMSET(hash, account) ==
    [hash EXCEPT
        !.id = Some(account.id),
        !.username = Some(account.username),
        !.ilp_address = Some(account.ilp_address),
        !.routing_relation = Some(account.routing_relation),
        !.ilp_over_btp_url =
            IF IsSome(account.ilp_over_btp_url) THEN account.ilp_over_btp_url ELSE @,
        !.ilp_over_http_incoming_token =
            IF IsSome(account.ilp_over_http_incoming_token)
            THEN account.ilp_over_http_incoming_token ELSE @,
        !.ilp_over_btp_incoming_token =
            IF IsSome(account.ilp_over_btp_incoming_token)
            THEN account.ilp_over_btp_incoming_token ELSE @]

\* FromRedisValue for AccountWithEncryptedTokens: id, username and ilp_address
\* are required (get_value), routing_relation defaults to NonRoutingAccount.
HashParses(hash) ==
    IsSome(hash.id) /\ IsSome(hash.username) /\ IsSome(hash.ilp_address)
from_redis_value(hash) ==
    [id |-> Val(hash.id), username |-> Val(hash.username),
     ilp_address |-> Val(hash.ilp_address),
     routing_relation |-> IF IsSome(hash.routing_relation)
                          THEN Val(hash.routing_relation) ELSE "NonRoutingAccount",
     ilp_over_btp_url |-> hash.ilp_over_btp_url,
     ilp_over_http_incoming_token |-> hash.ilp_over_http_incoming_token,
     ilp_over_btp_incoming_token |-> hash.ilp_over_btp_incoming_token]

\* A variant of update_routes that inserts the static entries first and the
\* dynamic entries last.
update_routes_dynamic_last(db) ==
    LET default_route == IF IsSome(db.routes_default)
                         THEN Put(EmptyMap, <<>>, Val(db.routes_default))
                         ELSE EmptyMap
    IN  Extend(Extend(db.routes_static, default_route), db.routes_current)

\* update_routes: one pipeline reads routes:current, routes:static and
\* routes:default; the new table is built by inserting the dynamic entries,
\* then the default route under "", then the static entries, a later insertion
\* replacing an earlier one on the same prefix.
update_routes(db) ==
    LET default_route == IF IsSome(db.routes_default)
                         THEN Put(EmptyMap, <<>>, Val(db.routes_default))
                         ELSE EmptyMap
    IN  Extend(Extend(db.routes_current, default_route), db.routes_static)

\* RedisStore::redis_insert_account
\* The answers to the pipeline of the uniqueness check.
insert_account_results(db, account) ==
    {exists_accounts_key(db, account.id),
     account.username \in DOMAIN db.usernames}
    \cup (IF account.routing_relation = "Parent"
          THEN {IsSome(db.parent)} ELSE {})

\* The backend after the atomic pipeline of the writes.
insert_account_written(db, account) ==
    [db EXCEPT
        !.accounts = @ \cup {account.id},
        !.usernames = Put(@, account.username, account.id),
        !.hash[account.id] = HMSET([@ EXCEPT !.balance = Some(0)], account),
        !.send_routes_to =
            IF should_send_routes(account) THEN @ \cup {account.id} ELSE @,
        !.receive_routes_from =
            IF should_receive_routes(account) THEN @ \cup {account.id} ELSE @,
        !.btp_outgoing =
            IF IsSome(account.ilp_over_btp_url) THEN @ \cup {account.id} ELSE @,
        !.routes_current = Put(@, account.ilp_address, account.id)]

redis_insert_account(db, table, encrypted) ==
    LET account == encrypted
        results == insert_account_results(db, account)
        written == insert_account_written(db, account)
    IN  IF TRUE \in results
        THEN Outcome(db, table, "AccountExists", <<>>)
        ELSE Outcome(written, update_routes(written), "", <<>>)

\* NodeStore::insert_account; the id is the one Uuid::new_v4() produced.
insert_account(db, table, id, details) ==
    LET account == try_from(id, details)
        r == redis_insert_account(db, table, encrypt_tokens(account))
    IN  IF r.err # "" THEN r ELSE Outcome(r.db, r.routes, "", <<account>>)

\* A variant of redis_update_account that removes the routes of the account
\* before it writes the route of the new address.
redis_update_account_replacing_route(db, table, encrypted) ==
    LET account == encrypted
        kept == [a \in {x \in DOMAIN db.routes_current :
                           db.routes_current[x] # account.id} |-> db.routes_current[a]]
        written ==
            [db EXCEPT
                !.accounts = @ \cup {account.id},
                !.hash[account.id] = HMSET(@, encrypted),
                !.send_routes_to =
                    IF should_send_routes(account) THEN @ \cup {account.id} ELSE @,
                !.receive_routes_from =
                    IF should_receive_routes(account) THEN @ \cup {account.id} ELSE @,
                !.btp_outgoing =
                    IF IsSome(account.ilp_over_btp_url) THEN @ \cup {account.id} ELSE @,
                !.routes_current = Put(kept, account.ilp_address, account.id)]
    IN  IF ~exists_accounts_key(db, account.id)
        THEN Outcome(db, table, "AccountNotFound", <<>>)
        ELSE Outcome(written, update_routes(written), "", <<>>)

\* RedisStore::redis_update_account
redis_update_account(db, table, encrypted) ==
    LET account == encrypted
        written ==
            [db EXCEPT
                !.accounts = @ \cup {account.id},
                !.hash[account.id] = HMSET(@, encrypted),
                !.send_routes_to =
                    IF should_send_routes(account) THEN @ \cup {account.id} ELSE @,
                !.receive_routes_from =
                    IF should_receive_routes(account) THEN @ \cup {account.id} ELSE @,
                !.btp_outgoing =
                    IF IsSome(account.ilp_over_btp_url) THEN @ \cup {account.id} ELSE @,
                !.routes_current = Put(@, account.ilp_address, account.id)]
    IN  IF ~exists_accounts_key(db, account.id)
        THEN Outcome(db, table, "AccountNotFound", <<>>)
        ELSE Outcome(written, update_routes(written), "", <<>>)

\* NodeStore::update_account
update_account(db, table, id, details) ==
    LET account == try_from(id, details)
        r == redis_update_account(db, table, encrypt_tokens(account))
    IN  IF r.err # "" THEN r ELSE Outcome(r.db, r.routes, "", <<account>>)

\* RedisStore::redis_get_account: LOAD_ACCOUNTS returns the hashes of the ids
\* that have one; the reply is decoded with from_redis_value.
redis_get_account(db, id) ==
    IF ~exists_accounts_key(db, id) THEN [err |-> "AccountNotFound", value |-> <<>>]
    ELSE IF ~HashParses(db.hash[id]) THEN [err |-> "TypeError", value |-> <<>>]
    ELSE [err |-> "", value |-> <<from_redis_value(db.hash[id])>>]

\* RedisStore::redis_modify_account with NodeStore::modify_account_settings,
\* for the settings ilp_over_btp_url and the two incoming tokens: the fields
\* given are written, then the account is loaded.
redis_modify_account(db, table, id, settings) ==
    LET written ==
            [db EXCEPT
                !.hash[id] =
                    [@ EXCEPT
                        !.ilp_over_btp_url =
                            IF IsSome(settings.ilp_over_btp_url)
                            THEN settings.ilp_over_btp_url ELSE @,
                        !.ilp_over_btp_incoming_token =
                            IF IsSome(settings.ilp_over_btp_incoming_token)
                            THEN EncryptOption(settings.ilp_over_btp_incoming_token)
                            ELSE @,
                        !.ilp_over_http_incoming_token =
                            IF IsSome(settings.ilp_over_http_incoming_token)
                            THEN EncryptOption(settings.ilp_over_http_incoming_token)
                            ELSE @]]
        loaded == redis_get_account(written, id)
    IN  IF loaded.err # ""
        THEN Outcome(written, table, loaded.err, <<>>)
        ELSE Outcome(written, table, "", <<decrypt_tokens(loaded.value[1])>>)

\* RedisStore::redis_delete_account with NodeStore::delete_account
redis_delete_account(db, table, id) ==
    LET loaded == redis_get_account(db, id)
        account == loaded.value[1]
        written ==
            [db EXCEPT
                !.accounts = @ \ {account.id},
                !.hash[account.id] = NoHash,
                !.usernames = Del(@, account.username),
                !.send_routes_to =
                    IF should_send_routes(account) THEN @ \ {account.id} ELSE @,
                !.receive_routes_from =
                    IF should_receive_routes(account) THEN @ \ {account.id} ELSE @,
                !.btp_outgoing =
                    IF IsSome(account.ilp_over_btp_url) THEN @ \ {account.id} ELSE @,
                !.routes_current = Del(@, account.ilp_address),
                !.uncredited = @ \ {id}]
    IN  IF loaded.err # ""
        THEN Outcome(db, table, loaded.err, <<>>)
        ELSE Outcome(written, update_routes(written), "", <<decrypt_tokens(account)>>)

\* AccountStore::get_account_id_from_username
get_account_id_from_username(db, username) ==
    IF username \in DOMAIN db.usernames
    THEN [err |-> "", value |-> <<db.usernames[username]>>]
    ELSE [err |-> "AccountNotFound", value |-> <<>>]

\* The script ACCOUNT_FROM_USERNAME: the account hash of the id that the
\* usernames hash gives for the username, if there is one.
ACCOUNT_FROM_USERNAME(db, username) ==
    IF username \in DOMAIN db.usernames
       /\ HashParses(db.hash[db.usernames[username]])
    THEN Some(from_redis_value(db.hash[db.usernames[username]]))
    ELSE None

\* HttpStore::get_account_from_http_auth
get_account_from_http_auth(db, username, token) ==
    LET found == ACCOUNT_FROM_USERNAME(db, username)
        account == decrypt_tokens(Val(found))
    IN  IF ~IsSome(found) THEN [err |-> "AccountNotFound", value |-> <<>>]
        ELSE IF IsSome(account.ilp_over_http_incoming_token)
        THEN IF Val(account.ilp_over_http_incoming_token) = token
             THEN [err |-> "", value |-> <<account>>]
             ELSE [err |-> "Unauthorized", value |-> <<>>]
        ELSE [err |-> "Unauthorized", value |-> <<>>]

\* BtpStore::get_account_from_btp_auth
get_account_from_btp_auth(db, username, token) ==
    LET found == ACCOUNT_FROM_USERNAME(db, username)
        account == decrypt_tokens(Val(found))
    IN  IF ~IsSome(found) THEN [err |-> "AccountNotFound", value |-> <<>>]
        ELSE IF IsSome(account.ilp_over_btp_incoming_token)
        THEN IF Val(account.ilp_over_btp_incoming_token) = token
             THEN [err |-> "", value |-> <<account>>]
             ELSE [err |-> "Unauthorized", value |-> <<>>]
        ELSE [err |-> "Unauthorized", value |-> <<>>]

\* A variant of set_static_routes that writes the routes without asking
\* whether the accounts exist.
set_static_routes_unchecked(db, table, new_routes) ==
    LET written == [db EXCEPT !.routes_static = new_routes]
    IN  Outcome(written, update_routes(written), "", <<>>)

\* NodeStore::set_static_routes, for a list of routes with distinct prefixes
\* given as a map
set_static_routes(db, table, new_routes) ==
    LET accounts_exist ==
            {exists_accounts_key(db, new_routes[p]) : p \in DOMAIN new_routes}
        written == [db EXCEPT !.routes_static = new_routes]
    IN  IF FALSE \in accounts_exist
        THEN Outcome(db, table, "MissingAccounts", <<>>)
        ELSE Outcome(written, update_routes(written), "", <<>>)

\* NodeStore::set_static_route
set_static_route(db, table, prefix, account_id) ==
    LET written == [db EXCEPT !.routes_static = Put(@, prefix, account_id)]
    IN  IF ~exists_accounts_key(db, account_id)
        THEN Outcome(db, table, "AccountNotFound", <<>>)
        ELSE Outcome(written, update_routes(written), "", <<>>)

\* A variant of set_default_route that leaves the refresh to the poll task.
set_default_route_without_refresh(db, table, account_id) ==
    LET written == [db EXCEPT !.routes_default = Some(account_id)]
    IN  IF ~exists_accounts_key(db, account_id)
        THEN Outcome(db, table, "AccountNotFound", <<>>)
        ELSE Outcome(written, table, "", <<>>)

\* NodeStore::set_default_route
set_default_route(db, table, account_id) ==
    LET written == [db EXCEPT !.routes_default = Some(account_id)]
    IN  IF ~exists_accounts_key(db, account_id)
        THEN Outcome(db, table, "AccountNotFound", <<>>)
        ELSE Outcome(written, update_routes(written), "", <<>>)

\* CcpRoutingStore::set_routes
set_routes(db, table, new_routes) ==
    LET written == [db EXCEPT !.routes_current = new_routes]
    IN  Outcome(written, update_routes(written), "", <<>>)

\* One round of the loop of set_ilp_address, for one loaded account.
RewriteAddress(db, account, address) ==
    LET first_segment == address[Len(address)]
        new_ilp_address == IF first_segment = account.username
                           THEN address
                           ELSE Append(address, account.username)
    IN  IF account.routing_relation # "Parent" /\ account.routing_relation # "Peer"
        THEN [db EXCEPT
                !.hash[account.id].ilp_address = Some(new_ilp_address),
                !.routes_current =
                    Put(Del(@, account.ilp_address), new_ilp_address, account.id)]
        ELSE db

RECURSIVE RewriteAddresses(_, _, _)
RewriteAddresses(db, accounts, address) ==
    IF accounts = <<>> THEN db
    ELSE RewriteAddresses(RewriteAddress(db, Head(accounts), address),
                          Tail(accounts), address)

\* AddressStore::set_ilp_address; listing is the order in which the backend
\* lists the members of accounts to get_all_accounts.  The address is saved
\* first; the commands of the pipeline are built from the accounts as loaded
\* and run in order.
set_ilp_address(db, table, address, listing) ==
    LET saved == [db EXCEPT !.parent = Some(address)]
        accounts == [i \in 1 .. Len(listing) |-> from_redis_value(saved.hash[listing[i]])]
        written == RewriteAddresses(saved, accounts, address)
    IN  IF \E i \in 1 .. Len(listing) : ~HashParses(saved.hash[listing[i]])
        THEN Outcome(saved, table, "TypeError", <<>>)
        ELSE Outcome(written, update_routes(written), "", <<>>)

\* AddressStore::clear_ilp_address
clear_ilp_address(db, table) ==
    Outcome([db EXCEPT !.parent = None], table, "", <<>>)

\* The last registry or routing call and its result, before any call.
NoRegCall == [op |-> "none", err |-> ""]

\* ------------------------------------------------------------- the services
\* connect spawns the poll task, which sleeps until its first tick; the store
\* handle that connect returns is the one strong reference to the connection.
NewPollTask ==
    [pc |-> "sleeping", current |-> EmptyMap, static |-> EmptyMap,
     instants |-> {}, handles |-> 1, inflight |-> FALSE, writes |-> 0]

\* No bucket has been drawn from: the keys limit:packets:{id} and
\* limit:throughput:{id} do not exist.
EmptyBuckets == [packets |-> 0, throughput |-> 0]

\* connect creates the subscriptions map empty and the payment publisher
\* without receivers; the worker thread is subscribed to every channel.
NewBus ==
    [subscriptions |-> EmptyMap, closed |-> {}, receivers |-> 0, broadcast |-> <<>>,
     pending |-> <<>>, published |-> 0, worker |-> "subscribed"]

NoServiceCall == [op |-> "none", err |-> "", value |-> <<>>, args |-> <<>>]

ServicesInit ==
    /\ poll = NewPollTask
    /\ limits = EmptyBuckets
    /\ idem = EmptyMap
    /\ leftovers = <<>>
    /\ bus = NewBus
    /\ svc = NoServiceCall

\* ------------------------------------------------------------ the rate limiter
\* CL.THROTTLE key max_burst count_per_period period quantity of the redis-cell
\* module, on a bucket from which drawn tokens are out: the bucket holds
\* max_burst + 1 tokens; a quantity that fits is drawn and the reply starts
\* with 0, one that does not fit draws nothing and the reply starts with 1; a
\* negative quantity gives tokens back, up to a full bucket.
CL_THROTTLE(drawn, max_burst, quantity) ==
    IF drawn + quantity <= max_burst + 1
    THEN [drawn |-> IF drawn + quantity < 0 THEN 0 ELSE drawn + quantity, reply |-> <<0>>]
    ELSE [drawn |-> drawn, reply |-> <<1>>]

\* What a rate-limit call hands back: the buckets after it, Ok ("") or the
\* error, and the quantities it sent to the throughput bucket.
Limited(buckets, err, sent) == [buckets |-> buckets, err |-> err, sent |-> sent]

\* A variant of apply_rate_limits that looks at the throughput result first.
apply_rate_limits_throughput_first(buckets, account, prepare_amount, reachable) ==
    LET packet_limit == IsSome(account.packets_per_minute_limit)
        amount_limit == IsSome(account.amount_per_minute_limit)
        packets == CL_THROTTLE(buckets.packets,
                               Val(account.packets_per_minute_limit) - 1, 1)
        throughput == CL_THROTTLE(buckets.throughput,
                                  Val(account.amount_per_minute_limit) - 1,
                                  prepare_amount)
        results == (IF packet_limit THEN <<packets.reply>> ELSE <<>>)
                   \o (IF amount_limit THEN <<throughput.reply>> ELSE <<>>)
        after == [packets |-> IF packet_limit THEN packets.drawn ELSE buckets.packets,
                  throughput |-> IF amount_limit THEN throughput.drawn
                                 ELSE buckets.throughput]
        sent == IF amount_limit THEN <<prepare_amount>> ELSE <<>>
    IN  IF ~(amount_limit \/ packet_limit) THEN Limited(buckets, "", <<>>)
        ELSE IF ~reachable THEN Limited(buckets, "StoreError", <<>>)
        ELSE IF packet_limit /\ amount_limit
        THEN IF results[2][1] = 1 THEN Limited(after, "ThroughputLimitExceeded", sent)
             ELSE IF results[1][1] = 1 THEN Limited(after, "PacketLimitExceeded", sent)
             ELSE Limited(after, "", sent)
        ELSE IF packet_limit /\ results[1][1] = 1
        THEN Limited(after, "PacketLimitExceeded", sent)
        ELSE IF amount_limit /\ results[1][1] = 1
        THEN Limited(after, "ThroughputLimitExceeded", sent)
        ELSE Limited(after, "", sent)

\* RateLimitStore::apply_rate_limits, for limits of at least 1.  The pipeline
\* holds the command of each configured limit, packets first; results are the
\* replies in the order of the commands; reachable says whether the backend
\* answers the pipeline.
apply_rate_limits(buckets, account, prepare_amount, reachable) ==
    LET packet_limit == IsSome(account.packets_per_minute_limit)
        amount_limit == IsSome(account.amount_per_minute_limit)
        packets == CL_THROTTLE(buckets.packets,
                               Val(account.packets_per_minute_limit) - 1, 1)
        throughput == CL_THROTTLE(buckets.throughput,
                                  Val(account.amount_per_minute_limit) - 1,
                                  prepare_amount)
        results == (IF packet_limit THEN <<packets.reply>> ELSE <<>>)
                   \o (IF amount_limit THEN <<throughput.reply>> ELSE <<>>)
        after == [packets |-> IF packet_limit THEN packets.drawn ELSE buckets.packets,
                  throughput |-> IF amount_limit THEN throughput.drawn
                                 ELSE buckets.throughput]
        sent == IF amount_limit THEN <<prepare_amount>> ELSE <<>>
    IN  IF ~(amount_limit \/ packet_limit) THEN Limited(buckets, "", <<>>)
        ELSE IF ~reachable THEN Limited(buckets, "StoreError", <<>>)
        ELSE IF packet_limit /\ amount_limit
        THEN IF results[1][1] = 1 THEN Limited(after, "PacketLimitExceeded", sent)
             ELSE IF results[2][1] = 1 THEN Limited(after, "ThroughputLimitExceeded", sent)
             ELSE Limited(after, "", sent)
        ELSE IF packet_limit /\ results[1][1] = 1
        THEN Limited(after, "PacketLimitExceeded", sent)
        ELSE IF amount_limit /\ results[1][1] = 1
        THEN Limited(after, "ThroughputLimitExceeded", sent)
        ELSE Limited(after, "", sent)

\* RateLimitStore::refund_throughput_limit.  The quantity is
\* 0i64 - (prepare_amount as i64): the cast wraps an amount above i64::MAX to
\* a negative number, and the subtraction overflows for i64::MIN, where it
\* panics when overflow is checked and wraps when it is not.
refund_throughput_limit(buckets, account, prepare_amount, reachable) ==
    LET cast == DecodeI64(prepare_amount)
        Sent(quantity) ==
            LET throughput == CL_THROTTLE(buckets.throughput,
                                          Val(account.amount_per_minute_limit) - 1,
                                          quantity)
            IN  Limited([buckets EXCEPT !.throughput = throughput.drawn], "", <<quantity>>)
    IN  IF ~IsSome(account.amount_per_minute_limit) THEN {Limited(buckets, "", <<>>)}
        ELSE IF ~InI64(0 - cast)
        THEN {Limited(buckets, "panic", <<>>)}
             \cup (IF reachable THEN {Sent(DecodeI64(0 - cast))}
                   ELSE {Limited(buckets, "StoreError", <<DecodeI64(0 - cast)>>)})
        ELSE IF reachable THEN {Sent(0 - cast)}
        ELSE {Limited(buckets, "StoreError", <<0 - cast>>)}

\* -------------------------------------------------------- the idempotency cache
\* Bytes are sequences of numbers below 256; text is the bytes of its UTF-8
\* encoding, decimal digits the codes 48 .. 57.
RECURSIVE to_string(_)
to_string(n) == IF n < 10 THEN <<48 + n>> ELSE to_string(n \div 10) \o <<48 + (n % 10)>>

IsDigits(bytes) == bytes # <<>> /\ \A i \in DOMAIN bytes : bytes[i] \in 48 .. 57

RECURSIVE DigitsValue(_)
DigitsValue(bytes) ==
    IF bytes = <<>> THEN 0
    ELSE 10 * DigitsValue(SubSeq(bytes, 1, Len(bytes) - 1)) + (bytes[Len(bytes)] - 48)

\* str::from_utf8 on the bytes that the model draws, ASCII bytes and 0xFF: a
\* byte below 0x80 is a character, 0xFF is part of no character.
from_utf8(bytes) == IF \A i \in DOMAIN bytes : bytes[i] < 128 THEN Some(bytes) ELSE None

\* StatusCode::from_str: three digits, from 100 on.
StatusCode_from_str(text) ==
    IF IsDigits(text) /\ Len(text) = 3 /\ DigitsValue(text) >= 100
    THEN Some(DigitsValue(text)) ELSE None

\* expire(key, 86400): the seconds a record lives; the clock of the model
\* moves in steps of six hours.
IDEMPOTENCY_TTL == 86400
ClockStep == 21600

\* What a call on the cache hands back: the hashes after it, Ok ("") or the
\* error, and the value returned.
Cached(db, err, value) == [db |-> db, err |-> err, value |-> value]

IdempotentData(status, data, input_hash) ==
    [status |-> status, body |-> data, input_hash |-> input_hash]

\* IdempotentStore::save_idempotent_data: HMSET of the three fields and EXPIRE
\* in one MULTI/EXEC; the status goes out as the decimal text of its u16, the
\* body and the hash as their bytes.
save_idempotent_data(db, idempotency_key, input_hash, status_code, data, reachable) ==
    IF ~reachable THEN Cached(db, "RedisError", None)
    ELSE LET old == IF idempotency_key \in DOMAIN db THEN db[idempotency_key].fields
                    ELSE EmptyMap
             fields == Put(Put(Put(old, "status_code", to_string(status_code)),
                               "data", data), "input_hash", input_hash)
         IN  Cached(Put(db, idempotency_key, [fields |-> fields, ttl |-> IDEMPOTENCY_TTL]),
                    "", None)

\* IdempotentStore::load_idempotent_data: HGETALL into a HashMap<String, String>,
\* which fails when a field's bytes are not UTF-8; with the three fields there,
\* the hash is copied into 32 bytes (a panic for another length) and the
\* status parsed (a panic when it does not parse).
load_idempotent_data(db, idempotency_key, reachable) ==
    LET fields == IF idempotency_key \in DOMAIN db THEN db[idempotency_key].fields
                  ELSE EmptyMap
        ret == [f \in DOMAIN fields |-> from_utf8(fields[f])]
    IN  IF ~reachable THEN Cached(db, "RedisError", None)
        ELSE IF \E f \in DOMAIN ret : ret[f] = None THEN Cached(db, "RedisError", None)
        ELSE IF {"status_code", "data", "input_hash"} \subseteq DOMAIN ret
        THEN IF Len(Val(ret["input_hash"])) # HashLen
                \/ StatusCode_from_str(Val(ret["status_code"])) = None
             THEN Cached(db, "panic", None)
             ELSE Cached(db, "",
                         Some(IdempotentData(Val(StatusCode_from_str(Val(ret["status_code"]))),
                                             Val(ret["data"]),
                                             Val(ret["input_hash"]))))
        ELSE Cached(db, "", None)

\* ---------------------------------------------------------- the leftover ledger
RECURSIVE Pow10(_)
Pow10(n) == IF n = 0 THEN 1 ELSE 10 * Pow10(n - 1)

\* normalize_scale(ConvertDetails { from, to }) on a BigUint: times 10^(to - from)
\* up, floor division by 10^(from - to) down.
normalize_scale(num, from, to) ==
    IF to >= from THEN num * Pow10(to - from) ELSE num \div Pow10(from - to)

\* scale_with_precision_loss(amount, local_scale, remote_scale): the amount at
\* the local scale, and what the floor division lost, at the remote scale.
scale_with_precision_loss(amount, local_scale, remote_scale) ==
    LET scaled == normalize_scale(amount, remote_scale, local_scale)
        upscaled == normalize_scale(scaled, local_scale, remote_scale)
    IN  IF local_scale < remote_scale
        THEN <<scaled, IF upscaled < amount THEN amount - upscaled ELSE 0>>
        ELSE <<scaled, 0>>

\* ToRedisArgs for AmountWithScale: the decimal text of num, then of scale.
AmountWithScale(num, scale) == <<to_string(num), to_string(scale)>>

\* The loop of parse_multi_values: one (num, scale) for every two items, None
\* when an item is missing or does not parse as BigUint or as u8.
RECURSIVE ParsedAmounts(_)
ParsedAmounts(items) ==
    IF items = <<>> THEN Some(<<>>)
    ELSE IF Len(items) < 2 \/ ~IsDigits(items[1]) \/ ~IsDigits(items[2]) THEN None
    ELSE IF DigitsValue(items[2]) > 255 THEN None
    ELSE LET rest == ParsedAmounts(SubSeq(items, 3, Len(items)))
         IN  IF rest = None THEN None
             ELSE Some(<<<<DigitsValue(items[1]), DigitsValue(items[2])>>>> \o Val(rest))

RECURSIVE SumAtScale(_, _)
SumAtScale(amounts, max_scale) ==
    IF amounts = <<>> THEN 0
    ELSE normalize_scale(amounts[1][1], amounts[1][2], max_scale)
         + SumAtScale(Tail(amounts), max_scale)

\* AmountWithScale::parse_multi_values: the sum of the amounts at the largest
\* of their scales; max_scale starts at 0 and the sum at 0.
parse_multi_values(items) ==
    LET parsed == ParsedAmounts(items)
    IN  IF parsed = None THEN None
        ELSE LET amounts == Val(parsed)
                 max_scale == IF amounts = <<>> THEN 0
                              ELSE CHOOSE m \in {amounts[i][2] : i \in DOMAIN amounts} :
                                      \A i \in DOMAIN amounts : amounts[i][2] <= m
             IN  Some(<<SumAtScale(amounts, max_scale), max_scale>>)

\* What a call on the leftovers hands back: the list after it, Ok ("") or the
\* error, and the value returned.
Leftover(list, err, value) == [list |-> list, err |-> err, value |-> value]

\* A variant of get_uncredited_settlement_amount in which the empty list gives
\* no amount and the index 0 is out of bounds.
get_uncredited_settlement_amount_indexing_nothing(list, reachable) ==
    IF ~reachable THEN Leftover(list, "RedisError", None)
    ELSE LET amounts == parse_multi_values(list)
         IN  IF amounts = None THEN Leftover(<<>>, "RedisError", None)
             ELSE IF list = <<>> THEN Leftover(<<>>, "panic", None)
             ELSE Leftover(<<>>, "", Some(Val(amounts)))

\* LeftoversStore::get_uncredited_settlement_amount: LRANGE 0 -1 and DEL in one
\* MULTI/EXEC; the reply is one list of items, converted to one AmountWithScale,
\* the element 0 of amounts.
get_uncredited_settlement_amount(list, reachable) ==
    IF ~reachable THEN Leftover(list, "RedisError", None)
    ELSE LET amounts == parse_multi_values(list)
         IN  IF amounts = None THEN Leftover(<<>>, "RedisError", None)
             ELSE Leftover(<<>>, "", Some(Val(amounts)))

\* LeftoversStore::save_uncredited_settlement_amount: RPUSH of the two items.
save_uncredited_settlement_amount(list, uncredited_settlement_amount, reachable) ==
    IF ~reachable THEN Leftover(list, "RedisError", None)
    ELSE Leftover(list \o AmountWithScale(uncredited_settlement_amount[1],
                                          uncredited_settlement_amount[2]), "", None)

\* A variant of load_uncredited_settlement_amount that does not save the
\* precision loss.
load_uncredited_settlement_amount_dropping_loss(list, local_scale, reachable) ==
    LET got == get_uncredited_settlement_amount(list, reachable)
    IN  IF got.err # "" THEN got
        ELSE Leftover(got.list, "",
                      Some(scale_with_precision_loss(Val(got.value)[1], local_scale,
                                                     Val(got.value)[2])[1]))

\* A variant of the second half of load that does not save the precision loss.
load_after_get_dropping_loss(list, amount, local_scale) ==
    Leftover(list, "",
             Some(scale_with_precision_loss(amount[1], local_scale, amount[2])[1]))

\* The second half of load_uncredited_settlement_amount, on the amount that
\* get returned: the amount scaled to the local scale, and the RPUSH of the
\* precision loss at the larger of the two scales.
load_after_get(list, amount, local_scale) ==
    LET scaled == scale_with_precision_loss(amount[1], local_scale, amount[2])
        scaled_amount == scaled[1]
        precision_loss == scaled[2]
    IN  IF precision_loss > 0
        THEN Leftover(list \o AmountWithScale(precision_loss,
                                 IF local_scale > amount[2] THEN local_scale
                                 ELSE amount[2]),
                      "", Some(scaled_amount))
        ELSE Leftover(list, "", Some(scaled_amount))

\* LeftoversStore::load_uncredited_settlement_amount.
load_uncredited_settlement_amount(list, local_scale, reachable) ==
    LET got == get_uncredited_settlement_amount(list, reachable)
    IN  IF got.err # "" THEN got
        ELSE load_after_get(got.list, Val(got.value), local_scale)

\* LeftoversStore::clear_uncredited_settlement_amount: DEL of the list.
clear_uncredited_settlement_amount(list, reachable) ==
    IF ~reachable THEN Leftover(list, "RedisError", None)
    ELSE Leftover(<<>>, "", None)

\* ----------------------------------------------------------- the notification bus
\* A channel name is its prefix up to the colon and the rest; a payload is a
\* sequence of tokens, the JSON of a PaymentNotification an object around its
\* to_username.
STREAM_NOTIFICATIONS_PREFIX == "stream_notifications:"

starts_with(channel_name, prefix) == channel_name # <<>> /\ channel_name[1] = prefix

\* Uuid::from_str: the text of a uuid in lower or upper case gives the uuid,
\* other text an error.
Uuid_from_str(text) ==
    IF text = <<"id1">> \/ text = <<"ID1">> THEN Some("id1")
    ELSE IF text = <<"id2">> \/ text = <<"ID2">> THEN Some("id2")
    ELSE None

\* format!("{}", account_id): the lower-case text of a uuid.
Uuid_to_string(account_id) == account_id

serde_json_to_string(payment) == <<"{", payment.to_username, "}">>

serde_json_from_slice(payload) ==
    IF Len(payload) = 3 /\ payload[1] = "{" /\ payload[3] = "}"
    THEN Some([to_username |-> payload[2]]) ELSE None

\* What the callback of the worker hands back: the bus after it and the
\* ControlFlow that tells psubscribe to go on or to return.
Handled(b, flow) == [bus |-> b, flow |-> flow]

\* A variant of the callback that breaks out of the subscription on a payload
\* that does not deserialize.
on_message_breaking_on_bad_payload(b, channel_name, payload) ==
    IF starts_with(channel_name, STREAM_NOTIFICATIONS_PREFIX)
       /\ Uuid_from_str(Tail(channel_name)) # None
       /\ serde_json_from_slice(payload) = None
    THEN Handled(b, "Break")
    ELSE Handled(b, "Continue")

\* The callback that the worker thread gives to psubscribe(&["*"], ..). A
\* broadcast send reaches every receiver; an unbounded_send to a sink whose
\* receiving end is gone fails and is logged.
on_message(b, channel_name, payload) ==
    IF starts_with(channel_name, STREAM_NOTIFICATIONS_PREFIX)
    THEN LET account_id == Uuid_from_str(Tail(channel_name))
             message == serde_json_from_slice(payload)
         IN  IF account_id # None
             THEN IF message = None THEN Handled(b, "Continue")
                  ELSE LET sent == IF b.receivers > 0
                                   THEN [b EXCEPT !.broadcast = Append(@, Val(message))]
                                   ELSE b
                           id == Val(account_id)
                       IN  IF id \in DOMAIN sent.subscriptions /\ id \notin sent.closed
                           THEN Handled([sent EXCEPT !.subscriptions[id] =
                                                        Append(@, Val(message))],
                                        "Continue")
                           ELSE Handled(sent, "Continue")
             ELSE Handled(b, "Continue")
    ELSE Handled(b, "Continue")

\* StreamNotificationsStore::publish_payment_notification: the spawned task
\* resolves the username, then sends PUBLISH stream_notifications:{id} with the
\* JSON of the payment; an unknown username or a failed command publishes
\* nothing. The backend hands a published message to the subscribed worker.
\* PUBLISH <prefix><account id> <message>, as the spawned task sends it.
publish_message(b, account_id, message) ==
    [b EXCEPT !.pending =
        Append(@, [channel |-> <<STREAM_NOTIFICATIONS_PREFIX, Uuid_to_string(account_id)>>,
                   payload |-> message]),
              !.published = @ + 1]

publish_payment_notification(b, db, payment, reachable) ==
    LET account_id == get_account_id_from_username(db, payment.to_username)
    IN  IF ~reachable \/ account_id.err # "" THEN b
        ELSE publish_message(b, Val(account_id.value), serde_json_to_string(payment))

\* ------------------------------------------------------- the expiry shortener
\* round_trip_time and max_expiry_duration are u32, on the scale of the model
\* the numbers below U32_MOD; times are milliseconds.
U32_MOD == 2 * MaxInt
U32_MAX == U32_MOD - 1

\* What send_request does: it panics, or it hands the request to the next
\* service and returns that service's result.
Sent(err, forwarded, result) == [err |-> err, forwarded |-> forwarded, result |-> result]

\* A variant of send_request that forwards the request as it came.
send_request_untouched(max_expiry_duration, request, now, next) ==
    {Sent("", Some(request), Some(next))}

\* ExpiryShortenerService::send_request. The two round trip times are added as
\* u32 before the sum is widened to i64: a sum above u32::MAX panics where
\* overflow is checked and wraps where it is not. now is the one reading of
\* Utc::now(), next the result of the next service.
send_request(max_expiry_duration, request, now, next) ==
    LET sum == request.from.round_trip_time + request.to.round_trip_time
        Forward(time_to_subtract) ==
            LET new_expiry == request.prepare.expires_at - time_to_subtract
                latest_allowable_expiry == now + max_expiry_duration
                shortened == IF new_expiry > latest_allowable_expiry
                             THEN latest_allowable_expiry ELSE new_expiry
            IN  Sent("", Some([request EXCEPT !.prepare.expires_at = shortened]),
                     Some(next))
    IN  IF sum > U32_MAX
        THEN {Sent("panic", None, None), Forward(sum % U32_MOD)}
        ELSE {Forward(sum)}

\* ------------------------------------------------------------ state machine
\* RedisStore::redis_insert_account sets balance and prepaid_amount to 0 and
\* stores the optional fields of the account details.
NewAccount(min_balance, policy) ==
    [balance |-> 0, prepaid_amount |-> 0, min_balance |-> min_balance,
     settle_threshold |-> policy[1], settle_to |-> policy[2]]

NoCall ==
    [op |-> "none", amount |-> 0, key |-> None, err |-> "", value |-> <<>>,
     reply |-> <<>>, pre_balance |-> 0, pre_prepaid |-> 0, dup |-> FALSE,
     undoes |-> <<>>]

\* The callers of the concurrent view of the balance engine.
Tasks == {"t1", "t2", "t3"}

\* A task that has made no call.
IdleTask ==
    [pc |-> "idle", call |-> [op |-> "none", amount |-> 0, key |-> None],
     seen |-> <<>>, err |-> "", value |-> <<>>]

Init ==
    /\ \E m \in MinBalances, p \in SettlePolicies :
          redis = [account |-> NewAccount(m, p), idempotency |-> {}]
    /\ last = NoCall
    /\ issued = {}
    /\ tasks = [t \in Tasks |-> IdleTask]
    /\ order = <<>>
    /\ kv = EmptyBackend
    /\ routes = EmptyMap
    /\ ilp_address = DEFAULT_ILP_ADDRESS
    /\ reg = NoRegCall
    /\ ServicesInit

\* The call a compensating call undoes, when the caller makes it right after:
\* a reject of the amount just prepared, a refund of the amount the fulfill
\* just returned.  <<balance, prepaid_amount, amount>> before that first call.
Undoes(op, amount) ==
    IF \/ op = "reject" /\ last.op = "prepare" /\ last.err = ""
             /\ last.amount = amount
       \/ op = "refund_settlement" /\ last.op = "fulfill" /\ last.err = ""
             /\ last.value[2] = amount /\ amount > 0
    THEN <<last.pre_balance, last.pre_prepaid, last.amount>>
    ELSE <<>>

\* One call on the store: its script step and its result.
Call(op, amount, key, out) ==
    /\ redis' = out.db
    /\ last' = [op |-> op, amount |-> amount, key |-> key, err |-> out.err,
                value |-> out.value, reply |-> out.reply,
                pre_balance |-> redis.account.balance,
                pre_prepaid |-> redis.account.prepaid_amount,
                dup |-> IsSome(key) /\ Val(key) \in issued,
                undoes |-> Undoes(op, amount)]
    /\ issued' = IF op = "incoming_settlement" /\ out.err = ""
                 THEN issued \cup {Val(key)} ELSE issued
    /\ UNCHANGED <<tasks, order, kv, routes, ilp_address, reg, services>>

Prepare ==
    \E amount \in Amounts :
        Call("prepare", amount, None, update_balances_for_prepare(redis, amount))

Fulfill ==
    \E amount \in Amounts :
        Call("fulfill", amount, None, update_balances_for_fulfill(redis, amount))

Reject ==
    \E amount \in Amounts :
        Call("reject", amount, None, update_balances_for_reject(redis, amount))

\* The settlement engine's webhook, with or without an idempotency key.
IncomingSettlement ==
    \E amount \in Amounts, key \in {None} \cup {Some(k) : k \in IdempotencyKeys} :
        Call("incoming_settlement", amount, key,
             update_balance_for_incoming_settlement(redis, amount, key))

\* A refund of any amount, among them the amount the last fulfill returned.
RefundSettlement ==
    \E amount \in Amounts \cup
                 (IF last.op = "fulfill" /\ last.err = "" THEN {last.value[2]} ELSE {}) :
        Call("refund_settlement", amount, None, refund_settlement(redis, amount))

\* Settings that leave settle_to set whenever settle_threshold is set: what the
\* fulfill transaction does without a settle_to is not specified.
ModifySettings ==
    \E settle_threshold \in {None, Some(3)},
       settle_to \in {None} \cup {Some(s) : s \in NewSettleTos} :
        /\ IsSome(settle_threshold) /\ ~IsSome(settle_to)
              => IsSome(redis.account.settle_to)
        /\ Call("modify", 0, None,
                modify_account_settings(redis, settle_threshold, settle_to))

GetBalance ==
    \E out \in get_balance(redis) : Call("get_balance", 0, None, out)

Next ==
    \/ Prepare
    \/ Fulfill
    \/ Reject
    \/ IncomingSettlement
    \/ RefundSettlement
    \/ ModifySettings
    \/ GetBalance

Spec == Init /\ [][Next]_vars

\* ------------------------------------------- concurrent callers of the engine
\* Each balance method builds the script invocation and awaits it once
\* (`.invoke_async(..).await?`): the task sends one request, the backend runs
\* the script at some later moment, atomically, and the task resumes with the
\* reply.  A caller dropped while it awaits does not stop a request that has
\* been sent.
TaskCalls ==
    {[op |-> "prepare", amount |-> 2, key |-> None],
     [op |-> "fulfill", amount |-> 2, key |-> None],
     [op |-> "reject", amount |-> 2, key |-> None],
     [op |-> "refund_settlement", amount |-> 2, key |-> None],
     [op |-> "incoming_settlement", amount |-> 2, key |-> Some("k1")]}

\* The method a call names, applied to the store.
Invoke(db, call) ==
    CASE call.op = "prepare" -> update_balances_for_prepare(db, call.amount)
      [] call.op = "fulfill" -> update_balances_for_fulfill(db, call.amount)
      [] call.op = "reject" -> update_balances_for_reject(db, call.amount)
      [] call.op = "refund_settlement" -> refund_settlement(db, call.amount)
      [] call.op = "incoming_settlement" ->
             update_balance_for_incoming_settlement(db, call.amount, call.key)

\* The task sends its request; seen is what the counters were at that moment.
Issue(t) ==
    /\ tasks[t].pc = "idle"
    /\ \E call \in TaskCalls :
          tasks' = [tasks EXCEPT ![t] =
                       [@ EXCEPT !.pc = "sent", !.call = call,
                                 !.seen = <<redis.account.balance,
                                            redis.account.prepaid_amount>>]]
    /\ UNCHANGED <<redis, last, issued, order, kv, routes, ilp_address, reg, services>>

\* A variant of RunScript in which the decision is taken on the counters read
\* when the call was issued and written back when it is run (a read and a
\* write in two round trips in place of one script).
RunScript_on_issue_snapshot(t) ==
    /\ tasks[t].pc \in {"sent", "cancelled"}
    /\ LET stale == [redis EXCEPT !.account.balance = tasks[t].seen[1],
                                  !.account.prepaid_amount = tasks[t].seen[2]]
           out == Invoke(stale, tasks[t].call)
       IN  /\ redis' = out.db
           /\ tasks' = [tasks EXCEPT ![t] =
                  IF @.pc = "sent"
                  THEN [@ EXCEPT !.pc = "done", !.err = out.err, !.value = out.value]
                  ELSE [@ EXCEPT !.pc = "orphaned"]]
    /\ order' = Append(order, t)
    /\ UNCHANGED <<last, issued, kv, routes, ilp_address, reg, services>>

\* The backend runs the script of a request it has received, in one step; the
\* task, unless it was dropped meanwhile, resumes with the result.
RunScript(t) ==
    /\ tasks[t].pc \in {"sent", "cancelled"}
    /\ LET out == Invoke(redis, tasks[t].call)
       IN  /\ redis' = out.db
           /\ tasks' = [tasks EXCEPT ![t] =
                  IF @.pc = "sent"
                  THEN [@ EXCEPT !.pc = "done", !.err = out.err, !.value = out.value]
                  ELSE [@ EXCEPT !.pc = "orphaned"]]
    /\ order' = Append(order, t)
    /\ UNCHANGED <<last, issued, kv, routes, ilp_address, reg, services>>

\* The caller is dropped at its await point.  The request may or may not have
\* left the process: a cancelled call stays eligible to run but need not.
Cancel(t) ==
    /\ tasks[t].pc = "sent"
    /\ tasks' = [tasks EXCEPT ![t].pc = "cancelled"]
    /\ UNCHANGED <<redis, last, issued, order, kv, routes, ilp_address, reg, services>>

TasksNext ==
    \E t \in Tasks :
        \/ Issue(t)
        \/ RunScript(t)
        \/ Cancel(t)

SpecTasks == Init /\ [][TasksNext]_vars

\* ------------------------------------------- registry and routing operations
\* The calls of the admin API, the CCP collaborator, the channels' auth
\* lookups and the poll task on one store, one call at a time.

\* The store right after connect on an empty backend.
RegistryInit ==
    /\ redis = [account |-> NewAccount(None, <<None, None>>), idempotency |-> {}]
    /\ last = NoCall
    /\ issued = {}
    /\ tasks = [t \in Tasks |-> IdleTask]
    /\ order = <<>>
    /\ kv = EmptyBackend
    /\ routes = EmptyMap
    /\ ilp_address = DEFAULT_ILP_ADDRESS
    /\ reg = NoRegCall
    /\ ServicesInit

\* AccountDetails that name the ILP address example.<username>.
Details(username, relation, btp_url, http_token, btp_token) ==
    [username |-> username, ilp_address |-> <<"example", username>>,
     routing_relation |-> relation, ilp_over_btp_url |-> btp_url,
     ilp_over_http_incoming_token |-> http_token,
     ilp_over_btp_incoming_token |-> btp_token]

RegCall(op, out) ==
    /\ kv' = out.db
    /\ routes' = out.routes
    /\ reg' = [op |-> op, err |-> out.err]
    /\ UNCHANGED <<redis, last, issued, tasks, order, services>>

InsertAccount(AccountDetails) ==
    \E id \in Ids, details \in AccountDetails :
        /\ RegCall("insert_account", insert_account(kv, routes, id, details))
        /\ UNCHANGED ilp_address

UpdateAccount(AccountDetails) ==
    \E id \in Ids, details \in AccountDetails :
        /\ RegCall("update_account", update_account(kv, routes, id, details))
        /\ UNCHANGED ilp_address

ModifyAccountSettings(AccountSettings) ==
    \E id \in Ids, settings \in AccountSettings :
        /\ RegCall("modify_account_settings",
                   redis_modify_account(kv, routes, id, settings))
        /\ UNCHANGED ilp_address

DeleteAccount ==
    \E id \in Ids :
        /\ RegCall("delete_account", redis_delete_account(kv, routes, id))
        /\ UNCHANGED ilp_address

\* The orders in which the backend can list the members of a set.
Listings(S) ==
    {l \in [1 .. Cardinality(S) -> S] : \A i, j \in DOMAIN l : l[i] = l[j] => i = j}

SetIlpAddress(NodeAddresses) ==
    \E address \in NodeAddresses, listing \in Listings(kv.accounts) :
        /\ RegCall("set_ilp_address", set_ilp_address(kv, routes, address, listing))
        /\ ilp_address' = address

ClearIlpAddress ==
    /\ RegCall("clear_ilp_address", clear_ilp_address(kv, routes))
    /\ ilp_address' = DEFAULT_ILP_ADDRESS

\* A lookup: it has a result and writes nothing.
Lookup(op, r) ==
    /\ reg' = [op |-> op, err |-> r.err]
    /\ UNCHANGED <<kv, routes, ilp_address, redis, last, issued, tasks, order, services>>

HttpAuth(Tokens) ==
    \E username \in Usernames, token \in Tokens :
        Lookup("get_account_from_http_auth",
               get_account_from_http_auth(kv, username, token))

BtpAuth(Tokens) ==
    \E username \in Usernames, token \in Tokens :
        Lookup("get_account_from_btp_auth",
               get_account_from_btp_auth(kv, username, token))

SetStaticRoute(Prefixes) ==
    \E prefix \in Prefixes, account_id \in Ids :
        /\ RegCall("set_static_route", set_static_route(kv, routes, prefix, account_id))
        /\ UNCHANGED ilp_address

SetStaticRoutes(RouteLists) ==
    \E new_routes \in RouteLists :
        /\ RegCall("set_static_routes", set_static_routes(kv, routes, new_routes))
        /\ UNCHANGED ilp_address

SetDefaultRoute ==
    \E account_id \in Ids :
        /\ RegCall("set_default_route", set_default_route(kv, routes, account_id))
        /\ UNCHANGED ilp_address

SetRoutes(RouteLists) ==
    \E new_routes \in RouteLists :
        /\ RegCall("set_routes", set_routes(kv, routes, new_routes))
        /\ UNCHANGED ilp_address

\* One tick of the poll task spawned by connect.
PollRoutes ==
    /\ RegCall("poll_routes", Outcome(kv, update_routes(kv), "", <<>>))
    /\ UNCHANGED ilp_address

\* --- the account registry: accounts of either relation, without channels
Relations == {"Parent", "Child"}
RegistryDetails == {Details(u, r, None, None, None) : u \in Usernames, r \in Relations}
RegistrySettings ==
    {[ilp_over_btp_url |-> Some("btp://peer"),
      ilp_over_btp_incoming_token |-> None,
      ilp_over_http_incoming_token |-> None]}

RegistryNext ==
    \/ InsertAccount(RegistryDetails)
    \/ UpdateAccount(RegistryDetails)
    \/ ModifyAccountSettings(RegistrySettings)
    \/ DeleteAccount

SpecRegistry == RegistryInit /\ [][RegistryNext]_vars

\* --- the channels' auth lookups: child accounts with incoming tokens
Tokens == {"t1", "t2"}
AuthDetails ==
    {Details(u, "Child", None, http, btp) :
        u \in Usernames, http \in {None, Some("t1")}, btp \in {None, Some("t2")}}

AuthNext ==
    \/ InsertAccount(AuthDetails)
    \/ UpdateAccount(AuthDetails)
    \/ DeleteAccount
    \/ HttpAuth(Tokens)
    \/ BtpAuth(Tokens)

SpecAuth == RegistryInit /\ [][AuthNext]_vars

\* --- the routing table: child accounts, the route setters and the poll task
Prefixes == {<<>>, <<"example", "alice">>}
\* The non-empty route lists over the prefixes, as maps.
RouteLists ==
    UNION {[P -> Ids] : P \in (SUBSET Prefixes) \ {{}}}
RouteDetails == {Details(u, "Child", None, None, None) : u \in Usernames}

\* set_routes of another store that is connected to the same backend: its
\* pipeline replaces routes:current, and the refresh that follows fills the
\* other store's cache, not this one's.
OtherStoreSetRoutes(Lists) ==
    \E new_routes \in Lists :
        /\ kv' = set_routes(kv, routes, new_routes).db
        /\ reg' = [op |-> "other_store_set_routes", err |-> ""]
        /\ UNCHANGED <<routes, ilp_address, redis, last, issued, tasks, order, services>>

RoutesNext ==
    \/ InsertAccount(RouteDetails)
    \/ DeleteAccount
    \/ SetStaticRoute(Prefixes)
    \/ SetStaticRoutes(RouteLists)
    \/ SetDefaultRoute
    \/ SetRoutes(RouteLists)
    \/ OtherStoreSetRoutes(RouteLists)
    \/ PollRoutes

SpecRoutes == RegistryInit /\ [][RoutesNext]_vars

\* --- the poll task next to writers of the route sources
\* routes:current, routes:static and routes:default as they are at one instant.
Sources(db) == <<db.routes_current, db.routes_static, db.routes_default>>

\* What a step of the poll task or of a writer leaves alone.
aside == <<redis, last, issued, tasks, order, ilp_address, limits, idem, leftovers, bus, svc>>

\* A variant of the tick in which the task owns a strong handle of the
\* connection: the upgrade cannot fail.
Tick_holding_strong_handle ==
    /\ poll.pc = "sleeping"
    /\ poll' = [poll EXCEPT !.pc = "hgetall_current", !.inflight = TRUE,
                            !.instants = {Sources(kv)}]
    /\ UNCHANGED <<kv, routes, reg, aside>>

\* interval.tick().await, then connection_clone.upgrade(): with a strong
\* reference left the task takes one for the time of the refresh and sends the
\* pipeline of update_routes; without, it leaves the loop.
Tick ==
    /\ poll.pc = "sleeping"
    /\ poll' = IF poll.handles > 0
               THEN [poll EXCEPT !.pc = "hgetall_current", !.inflight = TRUE,
                                 !.instants = {Sources(kv)}]
               ELSE [poll EXCEPT !.pc = "stopped"]
    /\ UNCHANGED <<kv, routes, reg, aside>>

\* The pipeline of update_routes is built with pipe(), not pipe().atomic(): the
\* backend runs its three commands in order, each as one step, and runs the
\* commands of other clients in between.
ReadCurrent ==
    /\ poll.pc = "hgetall_current"
    /\ poll' = [poll EXCEPT !.pc = "hgetall_static", !.current = kv.routes_current]
    /\ UNCHANGED <<kv, routes, reg, aside>>

ReadStatic ==
    /\ poll.pc = "hgetall_static"
    /\ poll' = [poll EXCEPT !.pc = "get_default", !.static = kv.routes_static]
    /\ UNCHANGED <<kv, routes, reg, aside>>

\* A variant of the last step that computes the table and does not install it.
ReadDefault_without_install ==
    /\ poll.pc = "get_default"
    /\ poll' = [poll EXCEPT !.pc = "sleeping", !.inflight = FALSE, !.instants = {}]
    /\ reg' = [op |-> "poll_routes", err |-> ""]
    /\ UNCHANGED <<kv, routes, aside>>

\* GET routes:default, the reply of the pipeline, the new table written to the
\* cache; the task drops its strong reference at the end of the iteration.
ReadDefault ==
    /\ poll.pc = "get_default"
    /\ routes' = update_routes([routes_current |-> poll.current,
                                routes_static |-> poll.static,
                                routes_default |-> kv.routes_default])
    /\ poll' = [poll EXCEPT !.pc = "sleeping", !.inflight = FALSE, !.instants = {}]
    /\ reg' = [op |-> "poll_routes", err |-> ""]
    /\ UNCHANGED <<kv, aside>>

\* A write of another store on the same backend, between the commands of the
\* pipeline or not; instants collects the sources as they were at the instants
\* since the pipeline was sent.
ConcurrentWrite(op, out) ==
    /\ poll.writes < MaxWrites
    /\ out.err = ""
    /\ kv' = out.db
    /\ poll' = [poll EXCEPT !.writes = @ + 1,
                            !.instants = IF poll.inflight
                                         THEN @ \cup {Sources(out.db)} ELSE @]
    /\ reg' = [op |-> op, err |-> ""]
    /\ UNCHANGED <<routes, aside>>

ConcurrentSetRoutes(Lists) ==
    \E new_routes \in Lists :
        ConcurrentWrite("other_store_set_routes", set_routes(kv, routes, new_routes))

ConcurrentSetStaticRoutes(Lists) ==
    \E new_routes \in Lists :
        ConcurrentWrite("other_store_set_static_routes",
                        set_static_routes(kv, routes, new_routes))

\* #[derive(Clone)] on RedisStore and the drop of a handle: every handle holds
\* one strong reference to the connection.
CloneStore ==
    /\ poll.handles \in 1 .. MaxHandles - 1
    /\ poll' = [poll EXCEPT !.handles = @ + 1]
    /\ UNCHANGED <<kv, routes, reg, aside>>

DropStore ==
    /\ poll.handles > 0
    /\ poll' = [poll EXCEPT !.handles = @ - 1]
    /\ UNCHANGED <<kv, routes, reg, aside>>

\* insert_account on a handle of the store, between two refreshes of the task.
InsertBetweenTicks(AccountDetails) ==
    /\ poll.handles > 0
    /\ ~poll.inflight
    /\ InsertAccount(AccountDetails)

RefreshDetails == {Details("alice", "Child", None, None, None)}
RefreshLists == {Put(EmptyMap, <<"example", "alice">>, id) : id \in Ids}

PollTask == Tick \/ ReadCurrent \/ ReadStatic \/ ReadDefault

RefreshNext ==
    \/ InsertBetweenTicks(RefreshDetails)
    \/ ConcurrentSetRoutes(RefreshLists)
    \/ ConcurrentSetStaticRoutes(RefreshLists)
    \/ CloneStore
    \/ DropStore
    \/ Tick
    \/ ReadCurrent
    \/ ReadStatic
    \/ ReadDefault

SpecRefresh == RegistryInit /\ [][RefreshNext]_vars

\* The store stays alive and the backend reachable: no handle is dropped, the
\* interval keeps ticking and the backend answers every command.
RefreshLiveNext ==
    \/ InsertBetweenTicks(RefreshDetails)
    \/ ConcurrentSetRoutes(RefreshLists)
    \/ ConcurrentSetStaticRoutes(RefreshLists)
    \/ Tick
    \/ ReadCurrent
    \/ ReadStatic
    \/ ReadDefault

SpecRefreshLive == RegistryInit /\ [][RefreshLiveNext]_vars /\ WF_vars(PollTask)

\* --- the poll task next to mutations made through this store
\* A mutation of this store's own handle runs while the pipeline of the poll
\* task is under way: its write and the refresh that ends it are taken as one
\* step, the schedule in which no other command comes between them.
OverlapNext ==
    \/ InsertAccount(RefreshDetails)
    \/ DeleteAccount
    \/ SetStaticRoute(Prefixes)
    \/ Tick
    \/ ReadCurrent
    \/ ReadStatic
    \/ ReadDefault

SpecOverlap == RegistryInit /\ [][OverlapNext]_vars

\* --- the rate limiter: one account's two buckets
\* What a call on the rate limiter, the idempotency cache, the leftovers or
\* the notification bus leaves alone.
elsewhere == <<redis, last, issued, tasks, order, kv, routes, ilp_address, reg, poll>>

\* The account's limits, each one unset or at least 1.
LimitAccounts ==
    {[packets_per_minute_limit |-> p, amount_per_minute_limit |-> a] :
        p \in {None, Some(2)}, a \in {None, Some(3)}}

ApplyRateLimits ==
    \E account \in LimitAccounts, prepare_amount \in 1 .. MaxAmount + 1,
       reachable \in BOOLEAN :
        LET r == apply_rate_limits(limits, account, prepare_amount, reachable)
        IN  /\ limits' = r.buckets
            /\ svc' = [op |-> "apply_rate_limits", err |-> r.err, value |-> r.sent,
                       args |-> <<account, prepare_amount, reachable>>]
            /\ UNCHANGED <<elsewhere, idem, leftovers, bus>>

RefundThroughputLimit ==
    \E account \in LimitAccounts, prepare_amount \in 0 .. U64_MAX,
       reachable \in BOOLEAN :
        \E r \in refund_throughput_limit(limits, account, prepare_amount, reachable) :
            /\ limits' = r.buckets
            /\ svc' = [op |-> "refund_throughput_limit", err |-> r.err,
                       value |-> r.sent,
                       args |-> <<account, prepare_amount, reachable>>]
            /\ UNCHANGED <<elsewhere, idem, leftovers, bus>>

\* Time passes and a bucket gets one token back.
Elapse ==
    \E bucket \in {"packets", "throughput"} :
        /\ limits[bucket] > 0
        /\ limits' = [limits EXCEPT ![bucket] = @ - 1]
        /\ svc' = [op |-> "elapse", err |-> "", value |-> <<>>, args |-> <<bucket>>]
        /\ UNCHANGED <<elsewhere, idem, leftovers, bus>>

LimitsNext == ApplyRateLimits \/ RefundThroughputLimit \/ Elapse

SpecLimits == RegistryInit /\ [][LimitsNext]_vars

\* --- the idempotency cache
InputHashes == {[i \in 1 .. HashLen |-> 0], [i \in 1 .. HashLen |-> IF i = 1 THEN 255 ELSE 7]}
StatusCodes == {200, 500}
Bodies == {<<123, 125>>, <<255>>}

SaveIdempotentData ==
    \E idempotency_key \in IdempotencyKeys, input_hash \in InputHashes,
       status_code \in StatusCodes, data \in Bodies, reachable \in BOOLEAN :
        LET r == save_idempotent_data(idem, idempotency_key, input_hash, status_code,
                                      data, reachable)
        IN  /\ idem' = r.db
            /\ svc' = [op |-> "save_idempotent_data", err |-> r.err, value |-> r.value,
                       args |-> <<idempotency_key, input_hash, status_code, data>>]
            /\ UNCHANGED <<elsewhere, limits, leftovers, bus>>

LoadIdempotentData ==
    \E idempotency_key \in IdempotencyKeys, reachable \in BOOLEAN :
        LET r == load_idempotent_data(idem, idempotency_key, reachable)
        IN  /\ idem' = r.db
            /\ svc' = [op |-> "load_idempotent_data", err |-> r.err, value |-> r.value,
                       args |-> <<idempotency_key>>]
            /\ UNCHANGED <<elsewhere, limits, leftovers, bus>>

\* The clock moves; the backend removes the keys whose time to live is over.
ClockMoves ==
    /\ idem # EmptyMap
    /\ idem' = [k \in {x \in DOMAIN idem : idem[x].ttl > ClockStep} |->
                   [idem[k] EXCEPT !.ttl = @ - ClockStep]]
    /\ svc' = [op |-> "clock", err |-> "", value |-> None, args |-> <<>>]
    /\ UNCHANGED <<elsewhere, limits, leftovers, bus>>

IdempotencyNext == SaveIdempotentData \/ LoadIdempotentData \/ ClockMoves

SpecIdempotency == RegistryInit /\ [][IdempotencyNext]_vars

\* --- the leftover ledger of one account
Scales == 0 .. MaxScale

LeftoverCall(op, out, args) ==
    /\ leftovers' = out.list
    /\ svc' = [op |-> op, err |-> out.err, value |-> out.value, args |-> args]
    /\ UNCHANGED <<elsewhere, limits, idem, bus>>

SaveUncreditedSettlementAmount ==
    \E num \in Amounts, scale \in Scales :
        /\ Len(leftovers) < 2 * MaxEntries
        /\ LeftoverCall("save_uncredited_settlement_amount",
                        save_uncredited_settlement_amount(leftovers, <<num, scale>>, TRUE),
                        <<>>)

GetUncreditedSettlementAmount ==
    \E reachable \in BOOLEAN :
        LeftoverCall("get_uncredited_settlement_amount",
                     get_uncredited_settlement_amount(leftovers, reachable), <<>>)

LoadUncreditedSettlementAmount ==
    \E local_scale \in Scales, reachable \in BOOLEAN :
        LeftoverCall("load_uncredited_settlement_amount",
                     load_uncredited_settlement_amount(leftovers, local_scale, reachable),
                     <<local_scale>>)

ClearUncreditedSettlementAmount ==
    LeftoverCall("clear_uncredited_settlement_amount",
                 clear_uncredited_settlement_amount(leftovers, TRUE), <<>>)

LeftoversNext ==
    \/ SaveUncreditedSettlementAmount
    \/ GetUncreditedSettlementAmount
    \/ LoadUncreditedSettlementAmount
    \/ ClearUncreditedSettlementAmount

SpecLeftovers == RegistryInit /\ [][LeftoversNext]_vars

\* --- the notification bus
BusCall(op, b, flow, args) ==
    /\ bus' = b
    /\ svc' = [op |-> op, err |-> "", value |-> flow, args |-> args]
    /\ UNCHANGED <<redis, last, issued, tasks, order, routes, ilp_address, reg, poll,
                   limits, idem, leftovers>>

\* The account whose username the payments name is in the registry or not.
BusBackends ==
    {[kv EXCEPT !.usernames = names] : names \in {EmptyMap, Put(EmptyMap, "alice", "id1")}}

\* add_payment_notification_subscription(id, sender): the sender of a new sink
\* takes the place of the one that the map held for the id.
AddPaymentNotificationSubscription ==
    \E id \in Ids :
        /\ BusCall("add_payment_notification_subscription",
                   [bus EXCEPT !.subscriptions = Put(@, id, <<>>), !.closed = @ \ {id}],
                   <<>>, <<id>>)
        /\ kv' = kv

\* all_payment_subscription(): one more receiver of the publisher, as long as
\* the caller keeps it.
AllPaymentSubscription ==
    /\ bus.receivers = 0
    /\ BusCall("all_payment_subscription", [bus EXCEPT !.receivers = 1], <<>>, <<>>)
    /\ kv' = kv

DropReceiver ==
    /\ bus.receivers > 0
    /\ BusCall("drop_receiver", [bus EXCEPT !.receivers = @ - 1], <<>>, <<>>)
    /\ kv' = kv

\* The client of a sink goes away: the receiving end of the channel is dropped,
\* the sender stays in the map.
CloseSink ==
    \E id \in DOMAIN bus.subscriptions \ bus.closed :
        /\ BusCall("close_sink", [bus EXCEPT !.closed = @ \cup {id}], <<>>, <<id>>)
        /\ kv' = kv

PublishPaymentNotification ==
    \E db \in BusBackends, reachable \in BOOLEAN :
        /\ bus.published < MaxMessages
        /\ kv' = db
        /\ BusCall("publish_payment_notification",
                   publish_payment_notification(bus, db, [to_username |-> "alice"],
                                                reachable),
                   <<>>, <<>>)

\* Any client of the backend publishes on any channel: the worker is
\* subscribed to the pattern *.
OtherChannels ==
    {<<STREAM_NOTIFICATIONS_PREFIX, "ID2">>, <<STREAM_NOTIFICATIONS_PREFIX, "not-a-uuid">>,
     <<STREAM_NOTIFICATIONS_PREFIX>>, <<"other:", "id1">>}
OtherPayloads == {<<"{", "alice", "}">>, <<"{", "alice">>}

OtherClientPublishes ==
    \E channel \in OtherChannels, payload \in OtherPayloads :
        /\ bus.published < MaxMessages
        /\ BusCall("publish",
                   [bus EXCEPT !.pending = Append(@, [channel |-> channel,
                                                      payload |-> payload]),
                               !.published = @ + 1],
                   <<>>, <<>>)
        /\ kv' = kv

\* The worker thread takes the next message and runs the callback; psubscribe
\* returns, and the thread ends, when the callback says Break.
Worker ==
    /\ bus.worker = "subscribed"
    /\ bus.pending # <<>>
    /\ LET msg == Head(bus.pending)
           r == on_message([bus EXCEPT !.pending = Tail(@)], msg.channel, msg.payload)
       IN  BusCall("on_message",
                   [r.bus EXCEPT !.worker = IF r.flow = "Continue" THEN "subscribed"
                                            ELSE "stopped"],
                   Some(r.flow), <<msg.channel, msg.payload>>)
    /\ kv' = kv

BusNext ==
    \/ AddPaymentNotificationSubscription
    \/ AllPaymentSubscription
    \/ DropReceiver
    \/ CloseSink
    \/ PublishPaymentNotification
    \/ OtherClientPublishes
    \/ Worker

\* The worker thread does nothing but wait for messages: a message that is
\* pending is handled.
SpecBus == RegistryInit /\ [][BusNext]_vars /\ WF_vars(Worker)

\* --- the prepares in flight of one sender
\* The connector debits the sender with update_balances_for_prepare before it
\* forwards a packet, restores with update_balances_for_reject when the packet
\* is rejected, and credits the receiver, another account, with
\* update_balances_for_fulfill when it is fulfilled. The store has no field
\* for the packets in flight: the ledger is what the callers and an observer of
\* the sender's balance + prepaid_amount know.
NewLedger ==
    [inflight |-> <<>>, debited |-> 0, restored |-> 0, fulfilled |-> 0, prepares |-> 0,
     receiver |-> [account |-> NewAccount(None, <<None, None>>), idempotency |-> {}]]

Funds(db) == db.account.balance + db.account.prepaid_amount

Without(seq, i) == SubSeq(seq, 1, i - 1) \o SubSeq(seq, i + 1, Len(seq))

FlightsInit ==
    /\ \E m \in MinBalances :
          redis = [account |-> NewAccount(m, <<None, None>>), idempotency |-> {}]
    /\ last = NoCall
    /\ issued = {}
    /\ tasks = [t \in Tasks |-> IdleTask]
    /\ order = <<>>
    /\ kv = EmptyBackend
    /\ routes = EmptyMap
    /\ ilp_address = DEFAULT_ILP_ADDRESS
    /\ reg = NoRegCall
    /\ poll = NewPollTask
    /\ limits = EmptyBuckets
    /\ idem = EmptyMap
    /\ leftovers = <<>>
    /\ bus = NewBus
    /\ svc = [op |-> "none", err |-> "", value |-> NewLedger, args |-> <<>>]

FlightCall(op, db, err, ledger, amount) ==
    /\ redis' = db
    /\ svc' = [op |-> op, err |-> err, value |-> ledger, args |-> <<amount>>]
    /\ UNCHANGED <<last, issued, tasks, order, kv, routes, ilp_address, reg, poll,
                   limits, idem, leftovers, bus>>

PrepareFlight ==
    \E amount \in Amounts :
        LET ledger == svc.value
            r == update_balances_for_prepare(redis, amount)
        IN  /\ ledger.prepares < MaxPrepares
            /\ FlightCall("prepare", r.db, r.err,
                          [ledger EXCEPT
                              !.prepares = @ + 1,
                              !.debited = @ + (Funds(redis) - Funds(r.db)),
                              !.inflight = IF r.err = "" THEN Append(@, amount) ELSE @],
                          amount)

RejectFlight ==
    \E i \in DOMAIN svc.value.inflight :
        LET ledger == svc.value
            amount == ledger.inflight[i]
            r == update_balances_for_reject(redis, amount)
        IN  FlightCall("reject", r.db, r.err,
                       [ledger EXCEPT
                           !.restored = @ + (Funds(r.db) - Funds(redis)),
                           !.inflight = IF r.err = "" THEN Without(@, i) ELSE @],
                       amount)

FulfillFlight ==
    \E i \in DOMAIN svc.value.inflight :
        LET ledger == svc.value
            amount == ledger.inflight[i]
            r == update_balances_for_fulfill(ledger.receiver, amount)
        IN  FlightCall("fulfill", redis, r.err,
                       [ledger EXCEPT
                           !.receiver = r.db,
                           !.fulfilled = IF r.err = "" THEN @ + amount ELSE @,
                           !.inflight = IF r.err = "" THEN Without(@, i) ELSE @],
                       amount)

\* A settlement tops up the sender's prepaid_amount.
SettleFlight ==
    \E amount \in Amounts :
        LET r == update_balance_for_incoming_settlement(redis, amount, Some("k1"))
        IN  /\ svc.op = "none"
            /\ FlightCall("incoming_settlement", r.db, r.err, svc.value, amount)

FlightsNext == PrepareFlight \/ RejectFlight \/ FulfillFlight \/ SettleFlight

SpecFlights == FlightsInit /\ [][FlightsNext]_vars

\* --- the expiry shortener in front of an outgoing service: one request, any
\* request
MaxExpiryDurations == {2, 3}
RoundTripTimes == {0, 1, 2, U32_MAX - 1, U32_MAX}
Requests ==
    {[from |-> [round_trip_time |-> f], to |-> [round_trip_time |-> t],
      prepare |-> [expires_at |-> e, amount |-> 1], original_amount |-> 1] :
        f \in RoundTripTimes, t \in RoundTripTimes, e \in U32_MAX .. U32_MAX + 2 * MaxInt}

SendRequest ==
    \E max_expiry_duration \in MaxExpiryDurations, request \in Requests,
       now \in U32_MAX .. U32_MAX + 2, next \in {"Fulfill", "Reject"} :
        \E out \in send_request(max_expiry_duration, request, now, next) :
            /\ svc.op = "none"
            /\ svc' = [op |-> "send_request", err |-> out.err,
                       value |-> <<out.forwarded, out.result>>,
                       args |-> <<max_expiry_duration, request, now, next>>]
            /\ UNCHANGED <<elsewhere, limits, idem, leftovers, bus>>

ExpiryNext == SendRequest

SpecExpiry == RegistryInit /\ [][ExpiryNext]_vars

\* --- two clients inserting accounts at the same time
\* redis_insert_account makes three round trips: the pipeline of the
\* uniqueness check, the atomic pipeline of the writes, and the refresh of the
\* routing table. Other clients' commands run between the first and the second;
\* the refresh is taken with the write.
Inserters == [c1 |-> "id1", c2 |-> "id2"]
RaceDetails ==
    {Details("alice", "Child", None, None, None),
     Details("alice", "Parent", None, None, None),
     Details("bob", "Parent", None, None, None)}

IdleInserter == [pc |-> "idle", details |-> <<>>, results |-> {}, err |-> "", inserts |-> 0]

RaceInit ==
    /\ redis = [account |-> NewAccount(None, <<None, None>>), idempotency |-> {}]
    /\ last = NoCall
    /\ issued = {}
    /\ tasks = [t \in Tasks |-> IdleTask]
    /\ order = <<>>
    /\ kv = EmptyBackend
    /\ routes = EmptyMap
    /\ ilp_address = DEFAULT_ILP_ADDRESS
    /\ reg = NoRegCall
    /\ poll = NewPollTask
    /\ limits = EmptyBuckets
    /\ idem = EmptyMap
    /\ leftovers = <<>>
    /\ bus = NewBus
    /\ svc = [op |-> "none", err |-> "",
              value |-> [c \in DOMAIN Inserters |-> IdleInserter], args |-> <<>>]

InserterStep(op, c, inserter) ==
    /\ svc' = [op |-> op, err |-> inserter.err,
               value |-> [svc.value EXCEPT ![c] = inserter], args |-> <<c>>]
    /\ UNCHANGED <<redis, last, issued, tasks, order, ilp_address, reg, poll, limits,
                   idem, leftovers, bus>>

\* insert_account is called: try_from and encrypt_tokens build the account.
InsertBegins ==
    \E c \in DOMAIN Inserters, details \in RaceDetails :
        /\ svc.value[c].pc = "idle"
        /\ svc.value[c].inserts < MaxInserts
        /\ InserterStep("insert_account", c,
                        [svc.value[c] EXCEPT !.pc = "check", !.details = <<details>>,
                                             !.err = "", !.inserts = @ + 1])
        /\ UNCHANGED <<kv, routes>>

\* The backend runs the pipeline EXISTS accounts:{id}, HEXISTS usernames, and
\* for a Parent EXISTS parent_node_account_address.
InsertChecks ==
    \E c \in DOMAIN Inserters :
        LET account == encrypt_tokens(try_from(Inserters[c], svc.value[c].details[1]))
        IN  /\ svc.value[c].pc = "check"
            /\ InserterStep("insert_check", c,
                            [svc.value[c] EXCEPT
                                !.pc = "write",
                                !.results = insert_account_results(kv, account)])
            /\ UNCHANGED <<kv, routes>>

\* The client looks at the results it got: with one of them true it returns
\* AccountExists, otherwise it sends the writes, which the backend runs as
\* they are, and refreshes the routing table.
InsertWrites ==
    \E c \in DOMAIN Inserters :
        LET account == encrypt_tokens(try_from(Inserters[c], svc.value[c].details[1]))
            written == insert_account_written(kv, account)
        IN  /\ svc.value[c].pc = "write"
            /\ IF TRUE \in svc.value[c].results
               THEN /\ InserterStep("insert_refused", c,
                                    [svc.value[c] EXCEPT !.pc = "idle",
                                                         !.err = "AccountExists"])
                    /\ UNCHANGED <<kv, routes>>
               ELSE /\ kv' = written
                    /\ routes' = update_routes(written)
                    /\ InserterStep("insert_written", c,
                                    [svc.value[c] EXCEPT !.pc = "idle", !.err = ""])

RaceNext == InsertBegins \/ InsertChecks \/ InsertWrites

SpecInsertRace == RaceInit /\ [][RaceNext]_vars

\* --- the tasks that publish_payment_notification spawns
\* Every call spawns a task of its own with tokio::spawn; the task asks the
\* backend for the account id of the username and then sends PUBLISH. The
\* runtime runs the steps of the tasks in any order.
PublishBackend ==
    insert_account_written(
        insert_account_written(EmptyBackend,
            encrypt_tokens(try_from("id1", Details("alice", "Child", None, None, None)))),
        encrypt_tokens(try_from("id2", Details("bob", "Child", None, None, None))))

PublishInit ==
    /\ redis = [account |-> NewAccount(None, <<None, None>>), idempotency |-> {}]
    /\ last = NoCall
    /\ issued = {}
    /\ tasks = [t \in Tasks |-> IdleTask]
    /\ order = <<>>
    /\ kv = PublishBackend
    /\ routes = update_routes(PublishBackend)
    /\ ilp_address = DEFAULT_ILP_ADDRESS
    /\ reg = NoRegCall
    /\ poll = NewPollTask
    /\ limits = EmptyBuckets
    /\ idem = EmptyMap
    /\ leftovers = <<>>
    /\ bus = [NewBus EXCEPT !.receivers = 1]
    /\ svc = NoServiceCall

PublisherStep(t, task) ==
    /\ tasks' = [tasks EXCEPT ![t] = task]
    /\ UNCHANGED <<redis, last, issued, kv, routes, ilp_address, reg, poll, limits,
                   idem, leftovers, svc>>

\* The synchronous part of the call: the username is cloned, the message
\* serialized, and the task spawned.
PublishCalled ==
    \E t \in Tasks, username \in Usernames :
        /\ Len(order) < MaxMessages
        /\ \A i \in 1 .. Len(order) : order[i] # t
        /\ order' = Append(order, t)
        /\ PublisherStep(t, [pc |-> "hget",
                             call |-> [op |-> "publish_payment_notification",
                                       amount |-> 0, key |-> Some(username)],
                             seen |-> <<>>, err |-> "",
                             value |-> serde_json_to_string([to_username |-> username])])
        /\ bus' = bus

\* get_account_id_from_username(..).await?
PublisherResolves ==
    \E t \in Tasks :
        LET account_id == get_account_id_from_username(kv, Val(tasks[t].call.key))
        IN  /\ tasks[t].pc = "hget"
            /\ PublisherStep(t, IF account_id.err # ""
                                THEN [tasks[t] EXCEPT !.pc = "done", !.err = account_id.err]
                                ELSE [tasks[t] EXCEPT !.pc = "publish",
                                                      !.seen = account_id.value])
            /\ UNCHANGED <<order, bus>>

\* cmd("PUBLISH")..query_async(..).await?
PublisherPublishes ==
    \E t \in Tasks :
        /\ tasks[t].pc = "publish"
        /\ bus' = publish_message(bus, tasks[t].seen[1], tasks[t].value)
        /\ PublisherStep(t, [tasks[t] EXCEPT !.pc = "done"])
        /\ order' = order

PublishNext == PublishCalled \/ PublisherResolves \/ PublisherPublishes \/ Worker

SpecPublish == PublishInit /\ [][PublishNext]_vars


\* --- saves and loads of one account's leftovers next to each other
\* load_uncredited_settlement_amount makes two round trips: the MULTI/EXEC of
\* get_uncredited_settlement_amount, and the RPUSH of the precision loss. The
\* commands of other calls run between the two. svc.value keeps, at the scale
\* MaxScale, what was saved and what the loads returned, and the number of
\* calls.
Loaders == {"t1", "t2"}
SavedAmounts == {<<num, scale>> : num \in {1, MaxAmount}, scale \in Scales}
AtMaxScale(num, scale) == num * Pow10(MaxScale - scale)

LedgerInit ==
    /\ redis = [account |-> NewAccount(None, <<None, None>>), idempotency |-> {}]
    /\ last = NoCall
    /\ issued = {}
    /\ tasks = [t \in Tasks |-> IdleTask]
    /\ order = <<>>
    /\ kv = EmptyBackend
    /\ routes = EmptyMap
    /\ ilp_address = DEFAULT_ILP_ADDRESS
    /\ reg = NoRegCall
    /\ poll = NewPollTask
    /\ limits = EmptyBuckets
    /\ idem = EmptyMap
    /\ leftovers = <<>>
    /\ bus = NewBus
    /\ svc = [op |-> "none", err |-> "", value |-> <<0, 0, 0>>, args |-> <<>>]

LedgerStep(op, list, totals, args) ==
    /\ leftovers' = list
    /\ svc' = [op |-> op, err |-> "", value |-> totals, args |-> args]
    /\ UNCHANGED <<redis, last, issued, order, kv, routes, ilp_address, reg, poll,
                   limits, idem, bus>>

SaveNextToLoads ==
    \E pair \in SavedAmounts :
        /\ svc.value[3] < MaxLedgerCalls
        /\ LedgerStep("save_uncredited_settlement_amount",
                      save_uncredited_settlement_amount(leftovers, pair, TRUE).list,
                      <<svc.value[1] + AtMaxScale(pair[1], pair[2]), svc.value[2],
                        svc.value[3] + 1>>,
                      <<>>)
        /\ tasks' = tasks

\* self.get_uncredited_settlement_amount(account_id).await?
LoadGets ==
    \E t \in Loaders, local_scale \in Scales :
        LET got == get_uncredited_settlement_amount(leftovers, TRUE)
        IN  /\ svc.value[3] < MaxLedgerCalls
            /\ tasks[t].pc = "idle"
            /\ tasks' = [tasks EXCEPT ![t] =
                            [pc |-> "got",
                             call |-> [op |-> "load_uncredited_settlement_amount",
                                       amount |-> local_scale, key |-> None],
                             seen |-> <<Val(got.value)>>, err |-> got.err,
                             value |-> <<>>]]
            /\ LedgerStep("get_uncredited_settlement_amount", got.list,
                          <<svc.value[1], svc.value[2], svc.value[3] + 1>>, <<>>)

\* scale_with_precision_loss, the RPUSH of the loss, Ok(scaled_amount).
LoadReturns ==
    \E t \in Loaders :
        LET local_scale == tasks[t].call.amount
            loaded == load_after_get(leftovers, tasks[t].seen[1], local_scale)
        IN  /\ tasks[t].pc = "got"
            /\ tasks' = [tasks EXCEPT ![t] = IdleTask]
            /\ LedgerStep("load_uncredited_settlement_amount", loaded.list,
                          <<svc.value[1],
                            svc.value[2] + AtMaxScale(Val(loaded.value), local_scale),
                            svc.value[3]>>,
                          <<Len(leftovers), local_scale>>)

LedgerNext == SaveNextToLoads \/ LoadGets \/ LoadReturns

SpecLedger == LedgerInit /\ [][LedgerNext]_vars

\* ------------------------------------------------------------------ claims
Balance == redis.account.balance
Prepaid == redis.account.prepaid_amount
MinBalance == redis.account.min_balance
SettleThreshold == redis.account.settle_threshold
SettleTo == redis.account.settle_to
Succeeded(op) == last.op = op /\ last.err = ""

\* The part of a prepare's amount that is taken from prepaid_amount.
FromPrepaid(amount, prepaid) == IF prepaid >= amount THEN amount ELSE prepaid

\* C1: with min_balance set, a prepare of a positive amount succeeds exactly
\* when the balance after the debit (prepaid_amount consumed first) is not
\* below min_balance, and fails with InsufficientBalance otherwise; after a
\* successful prepare the balance is the debited one and is not below
\* min_balance.
C1_PrepareRespectsMinBalance ==
    last.op = "prepare" /\ last.amount > 0 /\ IsSome(MinBalance) =>
        LET debited == last.pre_balance
                       - (last.amount - FromPrepaid(last.amount, last.pre_prepaid))
        IN  /\ last.err = "" <=> debited >= Val(MinBalance)
            /\ last.err # "" => last.err = "InsufficientBalance"
            /\ last.err = "" => Balance = debited /\ Balance >= Val(MinBalance)

\* A prepare that consumed prepaid_amount and brought the balance exactly to
\* min_balance.
C1_Witness ==
    /\ Succeeded("prepare") /\ last.amount > 0 /\ last.pre_prepaid > 0
    /\ IsSome(MinBalance) /\ Balance = Val(MinBalance)

\* C2: a prepare that fails leaves balance and prepaid_amount as they were.
C2_FailedPrepareWritesNothing ==
    last.op = "prepare" /\ last.err # "" =>
        Balance = last.pre_balance /\ Prepaid = last.pre_prepaid

\* The scenario of C2 at the model's scale: min_balance -3, balance -2 after
\* a first prepare of 2, and a second prepare of 2 refused.
C2_Witness ==
    /\ last.op = "prepare" /\ last.err = "InsufficientBalance" /\ last.amount = 2
    /\ MinBalance = Some(-3) /\ Balance = -2 /\ Prepaid = 0

\* C3 as stated: a successful prepare followed by the reject of the same
\* amount gives balance and prepaid_amount each their value from before the
\* prepare.
C3_PrepareRejectBitwise ==
    Succeeded("reject") /\ last.undoes # <<>> =>
        Balance = last.undoes[1] /\ Prepaid = last.undoes[2]

\* C3 amended: a successful prepare followed by a successful reject of the
\* same amount restores the sum balance + prepaid_amount; what the prepare
\* took from prepaid_amount comes back as balance, so the two fields have
\* their former values exactly when the prepare consumed no prepaid amount.
C3_PrepareRejectRestoresSum ==
    Succeeded("reject") /\ last.undoes # <<>> =>
        LET consumed == FromPrepaid(last.amount, last.undoes[2])
        IN  /\ Balance + Prepaid = last.undoes[1] + last.undoes[2]
            /\ Balance = last.undoes[1] + consumed
            /\ Prepaid = last.undoes[2] - consumed

\* A reject right after a prepare that consumed prepaid_amount.
C3_Witness ==
    /\ Succeeded("reject") /\ last.undoes # <<>>
    /\ last.amount > 0 /\ last.undoes[2] > 0

\* What C4 says a call adds to balance + prepaid_amount.
ClaimedChange ==
    IF last.err # "" THEN 0
    ELSE CASE last.op = "prepare" -> - last.amount
           [] last.op = "fulfill" -> last.amount - last.value[2]
           [] last.op = "reject" -> last.amount
           [] last.op = "incoming_settlement" -> IF last.dup THEN 0 ELSE last.amount
           [] last.op = "refund_settlement" -> last.amount
           [] OTHER -> 0

\* C4: starting from balance = 0 and prepaid_amount = 0, balance +
\* prepaid_amount is the sum of the fulfilled, credited, rejected and refunded
\* amounts minus the prepared amounts and the settlement amounts fulfill
\* returned.  Stated call by call: every call changes balance + prepaid_amount
\* by exactly its term of that sum.
C4_NoMoneyCreatedOrLost ==
    (Balance + Prepaid) - (last.pre_balance + last.pre_prepaid) = ClaimedChange

\* Whether the fulfill just made reached settle_threshold.
ReachedThreshold ==
    IsSome(SettleThreshold) /\ last.pre_balance + last.amount >= Val(SettleThreshold)

C6_SettleAmountIsBalanceMinusSettleTo ==
    Succeeded("fulfill") /\ ReachedThreshold =>
        /\ last.value[2] = last.pre_balance + last.amount - Val(SettleTo)
        /\ Balance = last.pre_balance + last.amount - last.value[2]
        /\ Balance = Val(SettleTo)

\* C7: the amount_to_settle of a fulfill is never negative: the amount the
\* transaction computes fits the unsigned type it is returned in.
C7_SettleAmountNeverNegative ==
    Succeeded("fulfill") => last.reply[2] >= 0 /\ last.reply[2] <= U64_MAX

\* C8: a refund of the amount s > 0 that the fulfill just returned puts the
\* balance at its value before the fulfill plus the fulfilled amount, and does
\* not change prepaid_amount.
C8_RefundUndoesSettlement ==
    last.op = "refund_settlement" /\ last.undoes # <<>> =>
        /\ Balance = last.undoes[1] + last.undoes[3]
        /\ Prepaid = last.pre_prepaid

\* C9: of the incoming settlements made with one idempotency key, in whatever
\* order their scripts run, exactly the first is credited: a call whose key
\* was used by an earlier successful call changes nothing, a call with a new
\* key raises balance + prepaid_amount by its amount, and the keys recorded
\* are the keys credited.
C9_OneCreditPerIdempotencyKey ==
    /\ redis.idempotency = issued
    /\ Succeeded("incoming_settlement") =>
          IF last.dup
          THEN Balance = last.pre_balance /\ Prepaid = last.pre_prepaid
          ELSE Balance + Prepaid = last.pre_balance + last.pre_prepaid + last.amount

\* Two calls of 3 with key k1 and nothing else: the account is raised by 3.
C9_Witness ==
    /\ Succeeded("incoming_settlement") /\ last.dup /\ last.key = Some("k1")
    /\ last.amount = 3 /\ Prepaid = 3 /\ Balance = 0 /\ issued = {"k1"}

Computed ==
    CASE last.op = "prepare" /\ last.amount > 0 ->
             last.pre_balance
             - (last.amount - FromPrepaid(last.amount, last.pre_prepaid))
      [] last.op = "fulfill" -> last.pre_balance + last.amount
      [] last.op = "reject" /\ last.amount > 0 -> last.pre_balance + last.amount
      [] last.op = "refund_settlement" -> last.pre_balance + last.amount
      [] last.op = "incoming_settlement" /\ IsSome(last.key) /\ ~last.dup ->
             last.pre_prepaid + last.amount
      [] last.op = "get_balance" -> last.pre_balance + last.pre_prepaid
      [] OTHER -> 0

\* C12: whenever a balance operation (prepare, fulfill, reject, refund,
\* incoming settlement, or the sum of get_balance) would produce a value
\* outside the signed 64-bit range, it fails with BalanceOverflow and leaves
\* the stored values unchanged; a value it returns is never a wrapped one.
C12_OverflowFailsNeverWraps ==
    /\ ~InI64(Computed) /\ last.err # "InsufficientBalance" =>
          /\ last.err = "BalanceOverflow"
          /\ Balance = last.pre_balance /\ Prepaid = last.pre_prepaid
    /\ last.op = "get_balance" /\ last.err = "" => last.value = <<Computed>>

\* The calls of a list run one at a time, each to completion before the next:
\* the outcome of every call, in order.
RECURSIVE Serial(_, _)
Serial(db, calls) ==
    IF calls = <<>> THEN <<>>
    ELSE LET out == Invoke(db, Head(calls))
         IN  <<out>> \o Serial(out.db, Tail(calls))

\* The store before any call: the account as inserted.
InitialStore ==
    [account |-> [redis.account EXCEPT !.balance = 0, !.prepaid_amount = 0],
     idempotency |-> {}]

Existing == kv.accounts
UsernameOf(id) == kv.hash[id].username
RelationOf(id) == kv.hash[id].routing_relation

\* Everything in the backend that holds the id: a set member, the account
\* hash, a value of the usernames hash or of a routes hash, the default route,
\* the list of uncredited amounts.
Mentions(db, id) ==
    \/ id \in db.accounts
    \/ exists_accounts_key(db, id)
    \/ \E u \in DOMAIN db.usernames : db.usernames[u] = id
    \/ id \in db.send_routes_to
    \/ id \in db.receive_routes_from
    \/ id \in db.btp_outgoing
    \/ \E p \in DOMAIN db.routes_current : db.routes_current[p] = id
    \/ \E p \in DOMAIN db.routes_static : db.routes_static[p] = id
    \/ db.routes_default = Some(id)
    \/ id \in db.uncredited

\* C13: after any sequence of insert_account, update_account,
\* modify_account_settings and delete_account the registry is consistent: an
\* existing account's hash carries its own id, no two existing accounts have
\* the same username, get_account_id_from_username of an existing account's
\* username returns that account's id, and every username maps to an existing
\* account.
C13_RegistryConsistent ==
    /\ \A a \in Existing : kv.hash[a].id = Some(a)
    /\ \A a, b \in Existing : UsernameOf(a) = UsernameOf(b) => a = b
    /\ \A a \in Existing :
          get_account_id_from_username(kv, Val(UsernameOf(a)))
              = [err |-> "", value |-> <<a>>]
    /\ \A u \in DOMAIN kv.usernames : kv.usernames[u] \in Existing

\* C14: in every reachable state at most one existing account has the routing
\* relation Parent.
C14_AtMostOneParent ==
    Cardinality({a \in Existing : RelationOf(a) = Some("Parent")}) <= 1

\* C15: an insert_account whose id exists or whose username is the username of
\* an existing account fails with AccountExists and leaves the backend and the
\* routing table cache as they were, in every reachable state and for every
\* such id and details.
C15_DuplicateInsertWritesNothing ==
    \A id \in Ids, details \in RegistryDetails :
        (id \in Existing
            \/ \E a \in Existing : UsernameOf(a) = Some(details.username))
        => insert_account(kv, routes, id, details)
               = Outcome(kv, routes, "AccountExists", <<>>)

\* The same for a username that the usernames hash holds and an id whose
\* account hash exists, the two keys the insertion reads.
C15_InsertOfKeyedNameWritesNothing ==
    \A id \in Ids, details \in RegistryDetails :
        (exists_accounts_key(kv, id) \/ details.username \in DOMAIN kv.usernames)
        => insert_account(kv, routes, id, details)
               = Outcome(kv, routes, "AccountExists", <<>>)

\* C16: when delete_account of an inserted id returns Ok, nothing in the
\* backend holds the id any more, in every reachable state and for every id.
C16_DeleteLeavesNothing ==
    \A id \in Ids :
        LET r == redis_delete_account(kv, routes, id)
        IN  (id \in Existing /\ r.err = "") => ~Mentions(r.db, id)

\* The same for an account that was only inserted: right after its
\* insert_account, delete_account leaves nothing of the id.
C16_DeleteRightAfterInsert ==
    \A id \in Ids, details \in RegistryDetails :
        LET i == insert_account(kv, routes, id, details)
            r == redis_delete_account(i.db, i.routes, id)
        IN  (~Mentions(kv, id) /\ i.err = "") => (r.err = "" /\ ~Mentions(r.db, id))


\* What the claim says an auth lookup returns, given the incoming token that
\* the account hashes hold for the channel: the account named username when
\* its decrypted token is the given one, Unauthorized when an account has the
\* username but another token or none, AccountNotFound when none has it.
Named(username) == {a \in Existing : UsernameOf(a) = Some(username)}
AuthAsClaimed(username, token, TokenOf(_)) ==
    IF Named(username) = {} THEN [err |-> "AccountNotFound", value |-> <<>>]
    ELSE IF \E a \in Named(username) : DecryptOption(TokenOf(a)) = Some(token)
    THEN [err |-> "",
          value |-> <<decrypt_tokens(from_redis_value(
                        kv.hash[CHOOSE a \in Named(username) :
                                   DecryptOption(TokenOf(a)) = Some(token)]))>>]
    ELSE [err |-> "Unauthorized", value |-> <<>>]
HttpTokenOf(a) == kv.hash[a].ilp_over_http_incoming_token
BtpTokenOf(a) == kv.hash[a].ilp_over_btp_incoming_token

\* C17: in every reachable state and for every username and token,
\* get_account_from_http_auth and get_account_from_btp_auth return the account
\* exactly when an existing account has the username and the token is its
\* decrypted incoming token of the channel, Unauthorized when the username
\* exists with another token or none, and AccountNotFound when no account has
\* the username.
C17_AuthIffUsernameAndToken ==
    \A username \in Usernames, token \in Tokens :
        /\ get_account_from_http_auth(kv, username, token)
               = AuthAsClaimed(username, token, HttpTokenOf)
        /\ get_account_from_btp_auth(kv, username, token)
               = AuthAsClaimed(username, token, BtpTokenOf)

\* The usernames hash holds exactly the usernames of the existing accounts.
UsernamesAgree ==
    /\ \A a \in Existing : Get(kv.usernames, Val(UsernameOf(a))) = Some(a)
    /\ \A u \in DOMAIN kv.usernames :
          kv.usernames[u] \in Existing /\ UsernameOf(kv.usernames[u]) = Some(u)

\* The same in the states where the usernames hash and the accounts agree.
C17_AuthWhereUsernamesAgree ==
    UsernamesAgree => C17_AuthIffUsernameAndToken

\* An auth lookup changes neither the backend nor the routing table cache nor
\* the node's address.
C17_AuthWritesNothing ==
    [][reg'.op \in {"get_account_from_http_auth", "get_account_from_btp_auth"}
         => UNCHANGED <<kv, routes, ilp_address, redis>>]_vars


\* ------------------------------------------------------- claims on the routes
\* The key-wise union of the routes in the backend: on a prefix the static
\* entry, else (on the empty prefix) the default route, else the dynamic entry.
UnionOfRoutes(db) ==
    [p \in DOMAIN db.routes_current \cup DOMAIN db.routes_static
           \cup (IF IsSome(db.routes_default) THEN {<<>>} ELSE {}) |->
        IF p \in DOMAIN db.routes_static THEN db.routes_static[p]
        ELSE IF p = <<>> /\ IsSome(db.routes_default) THEN Val(db.routes_default)
        ELSE db.routes_current[p]]

\* C18: a refresh makes the routing table the key-wise union of the dynamic
\* routes, the default route under the empty prefix and the static routes, the
\* default overriding a dynamic entry and a static entry overriding both: so
\* is the table that a refresh computes in any reachable state, and so is the
\* cache after a tick of the poll task.
C18_RefreshIsUnion ==
    /\ update_routes(kv) = UnionOfRoutes(kv)
    /\ reg.op = "poll_routes" => routes = UnionOfRoutes(kv)

\* After a poll tick: a prefix with a dynamic route to id1 and a static route
\* to id2, the default route id1, and the table {"" -> id1, prefix -> id2}.
C18_Witness ==
    /\ reg.op = "poll_routes"
    /\ Get(kv.routes_current, <<"example", "alice">>) = Some("id1")
    /\ Get(kv.routes_static, <<"example", "alice">>) = Some("id2")
    /\ <<>> \notin DOMAIN kv.routes_static
    /\ kv.routes_default = Some("id1")
    /\ routes = Put(Put(EmptyMap, <<>>, "id1"), <<"example", "alice">>, "id2")

\* The cache a mutation leaves behind is the table of the backend it wrote.
Refreshed(r) == r.err = "" => r.routes = UnionOfRoutes(r.db)

\* C19: in every reachable state (the cache may be behind the backend), each
\* of set_static_route, set_static_routes, set_default_route, set_routes,
\* insert_account and delete_account that returns Ok has written the backend
\* and leaves the cache equal to the table of the backend after the write.
C19_MutationsWriteThroughAndRefresh ==
    /\ \A prefix \in Prefixes, id \in Ids :
          LET r == set_static_route(kv, routes, prefix, id)
          IN  /\ Refreshed(r)
              /\ r.err = "" => /\ Get(r.db.routes_static, prefix) = Some(id)
                               /\ Get(r.routes, prefix) = Some(id)
    /\ \A new_routes \in RouteLists :
          LET r == set_static_routes(kv, routes, new_routes)
          IN  /\ Refreshed(r)
              /\ r.err = "" => /\ r.db.routes_static = new_routes
                               /\ \A p \in DOMAIN new_routes :
                                     Get(r.routes, p) = Some(new_routes[p])
    /\ \A id \in Ids :
          LET r == set_default_route(kv, routes, id)
          IN  /\ Refreshed(r)
              /\ r.err = "" => /\ r.db.routes_default = Some(id)
                               /\ <<>> \in DOMAIN r.routes
                               /\ <<>> \notin DOMAIN kv.routes_static
                                     => r.routes[<<>>] = id
    /\ \A new_routes \in RouteLists :
          LET r == set_routes(kv, routes, new_routes)
          IN  /\ Refreshed(r)
              /\ r.err = ""
              /\ r.db.routes_current = new_routes
              /\ DOMAIN new_routes \subseteq DOMAIN r.routes
    /\ \A id \in Ids, details \in RouteDetails :
          LET r == insert_account(kv, routes, id, details)
          IN  /\ Refreshed(r)
              /\ r.err = "" => /\ Get(r.db.routes_current, details.ilp_address) = Some(id)
                               /\ details.ilp_address \in DOMAIN r.routes
    /\ \A id \in Ids :
          LET r == redis_delete_account(kv, routes, id)
          IN  /\ Refreshed(r)
              /\ r.err = "" => Val(kv.hash[id].ilp_address) \notin DOMAIN r.db.routes_current

\* A default route was set while the cache was behind the backend: the call
\* returned Ok and the cache holds the default route and the routes that the
\* other store had written.
C19_Witness ==
    /\ reg = [op |-> "set_default_route", err |-> ""]
    /\ IsSome(kv.routes_default)
    /\ kv.routes_static = EmptyMap
    /\ Get(routes, <<>>) = kv.routes_default
    /\ \E p \in DOMAIN kv.routes_current :
          p # <<>> /\ kv.routes_current[p] \notin Existing /\ p \in DOMAIN routes

\* The ids that a route list names and that have no account hash.
Missing(new_routes) ==
    {new_routes[p] : p \in DOMAIN new_routes} \ {id \in Ids : exists_accounts_key(kv, id)}

\* C20 as the specification states it: a static-route setter that names an id
\* without account fails with MissingAccounts and leaves routes:static and the
\* cache unchanged.
C20_SettersFailMissingAccounts ==
    /\ \A new_routes \in RouteLists :
          Missing(new_routes) # {}
          => set_static_routes(kv, routes, new_routes)
                 = Outcome(kv, routes, "MissingAccounts", <<>>)
    /\ \A prefix \in Prefixes, id \in Ids :
          ~exists_accounts_key(kv, id)
          => set_static_route(kv, routes, prefix, id)
                 = Outcome(kv, routes, "MissingAccounts", <<>>)

\* C20: a static-route setter that names an id without account fails and
\* leaves the backend and the cache unchanged; set_static_routes fails with
\* MissingAccounts and set_static_route with AccountNotFound.
C20_SettersFailAndWriteNothing ==
    /\ \A new_routes \in RouteLists :
          Missing(new_routes) # {}
          => set_static_routes(kv, routes, new_routes)
                 = Outcome(kv, routes, "MissingAccounts", <<>>)
    /\ \A prefix \in Prefixes, id \in Ids :
          ~exists_accounts_key(kv, id)
          => set_static_route(kv, routes, prefix, id)
                 = Outcome(kv, routes, "AccountNotFound", <<>>)

\* set_static_routes has failed for a missing account while static routes of
\* an earlier call are in place.
C20_Witness ==
    /\ reg = [op |-> "set_static_routes", err |-> "MissingAccounts"]
    /\ kv.routes_static # EmptyMap
    /\ Existing # Ids


\* ------------------------------------------------- claims on the poll task
\* C21: the table that a refresh installs is made of routes:current,
\* routes:static and routes:default as they all were at one instant between
\* the sending of the pipeline and its reply.
C21_RefreshReadsOneInstant ==
    [][(poll.pc = "get_default" /\ poll'.pc = "sleeping")
        => <<poll.current, poll.static, kv.routes_default>> \in poll.instants]_vars

\* C22: while it sleeps the task holds no strong reference; once no handle of
\* the store is left, the next step of the sleeping task ends the loop without
\* a command to the backend; and a task that has left the loop stays stopped
\* and writes the cache no more.
C22_TaskStopsAfterDrop ==
    [][/\ poll.pc \in {"sleeping", "stopped"} => ~poll.inflight
       /\ (poll.handles = 0 /\ poll.pc = "sleeping")
             => (poll'.pc \in {"sleeping", "stopped"} /\ routes' = routes)
       /\ poll.pc = "stopped" => (poll'.pc = "stopped" /\ routes' = routes)]_vars

\* The task has stopped after the last handle was dropped, and another store
\* has written routes that the cache never got.
C22_Witness ==
    /\ poll.pc = "stopped"
    /\ poll.handles = 0
    /\ reg.op = "other_store_set_routes"
    /\ routes # UnionOfRoutes(kv)

\* The cache is the composition of the persisted sources.
Fresh == routes = UnionOfRoutes(kv)

\* C23: with the store alive and the backend reachable, a refresh during which
\* the sources did not change leaves the cache equal to their composition, and
\* once the sources have stopped changing the cache becomes their composition
\* and stays so.
C23_CacheCatchesUp ==
    /\ [][(poll.pc = "get_default" /\ poll'.pc = "sleeping"
              /\ poll.instants = {Sources(kv)}) => Fresh']_vars
    /\ <>[]Fresh

\* The writers are done, and a tick of the task has made the cache equal to the
\* sources that they left, a dynamic and a static route.
C23_Witness ==
    /\ poll.writes = MaxWrites
    /\ reg.op = "poll_routes"
    /\ kv.routes_static # EmptyMap
    /\ Fresh

\* ------------------------------------------------ claims on the rate limiter
\* A bucket holds as many tokens as the limit says.
PacketsExceeded(account) ==
    /\ IsSome(account.packets_per_minute_limit)
    /\ limits.packets + 1 > Val(account.packets_per_minute_limit)
ThroughputExceeded(account, amount) ==
    /\ IsSome(account.amount_per_minute_limit)
    /\ limits.throughput + amount > Val(account.amount_per_minute_limit)

C25_RefundIsNegativeAndNeverFails ==
    \A account \in LimitAccounts, amount \in 0 .. U64_MAX, reachable \in BOOLEAN :
        \A r \in refund_throughput_limit(limits, account, amount, reachable) :
            /\ r.err = ""
            /\ r.buckets.packets = limits.packets
            /\ r.sent = (IF IsSome(account.amount_per_minute_limit)
                         THEN <<0 - amount>> ELSE <<>>)

\* The same for the amounts up to i64::MAX on a backend that answers.
C25_RefundOfSmallAmounts ==
    \A account \in LimitAccounts, amount \in 0 .. I64_MAX :
        \A r \in refund_throughput_limit(limits, account, amount, TRUE) :
            /\ r.err = ""
            /\ r.buckets.packets = limits.packets
            /\ r.sent = (IF IsSome(account.amount_per_minute_limit)
                         THEN <<0 - amount>> ELSE <<>>)

\* ------------------------------------------- claims on the idempotency cache
\* What load returns of a key on a backend that answers.
Loaded(db, key) ==
    LET r == load_idempotent_data(db, key, TRUE) IN <<r.err, r.value>>

\* What load returns of a key as long as the clock and saves of other keys are
\* all that happens.
C26_Kept(key) ==
    IF key \in DOMAIN idem' THEN Loaded(idem', key) = Loaded(idem, key)
    ELSE Loaded(idem', key) = <<"", None>>

\* The round trip for the inputs in Hashes and Data.
C26_RoundTripOf(Hashes, Data) ==
    /\ (svc'.op = "save_idempotent_data" /\ svc'.err = ""
          /\ svc'.args[2] \in Hashes /\ svc'.args[4] \in Data)
       => /\ Loaded(idem', svc'.args[1])
               = <<"", Some(IdempotentData(svc'.args[3], svc'.args[4], svc'.args[2]))>>
          /\ idem'[svc'.args[1]].ttl = 86400
          /\ \A key \in IdempotencyKeys \ {svc'.args[1]} : C26_Kept(key)
    /\ svc'.op = "clock"
       => \A key \in IdempotencyKeys :
             /\ (key \in DOMAIN idem /\ idem[key].ttl > ClockStep)
                    <=> key \in DOMAIN idem'
             /\ (key \in DOMAIN idem /\ idem[key].fields["input_hash"] \in Hashes
                   /\ idem[key].fields["data"] \in Data) => C26_Kept(key)
    /\ svc'.op = "load_idempotent_data" => idem' = idem
    /\ \A key \in IdempotencyKeys \ DOMAIN idem : Loaded(idem, key) = <<"", None>>

\* C26: a load right after a save returns exactly the status, body and hash
\* saved; it keeps returning them while the clock moves until 24 hours after
\* the save, and None from then on; a key never saved loads as None; a save
\* of one key and a load change nothing of what another key loads.
C26_RoundTrip == [][C26_RoundTripOf(InputHashes, Bodies)]_vars

\* The same for the hashes and bodies whose bytes are UTF-8 text.
C26_RoundTripOfText ==
    [][C26_RoundTripOf({h \in InputHashes : from_utf8(h) # None},
                       {d \in Bodies : from_utf8(d) # None})]_vars

\* --------------------------------------------- claims on the leftover ledger
\* The entries of a list of items, the largest of their scales, and their sum
\* at a scale.
Entries(items) ==
    [i \in 1 .. Len(items) \div 2 |->
        [amount |-> DigitsValue(items[2 * i - 1]), scale |-> DigitsValue(items[2 * i])]]
LargestScale(entries) ==
    CHOOSE m \in {entries[i].scale : i \in DOMAIN entries} \cup {0} :
        \A i \in DOMAIN entries : entries[i].scale <= m
RECURSIVE TotalAt(_, _)
TotalAt(entries, m) ==
    IF entries = <<>> THEN 0
    ELSE entries[Len(entries)].amount * Pow10(m - entries[Len(entries)].scale)
         + TotalAt(SubSeq(entries, 1, Len(entries) - 1), m)

\* The load of a list at a scale conserves the sum.
Conserved(list, local_scale) ==
    LET r == load_uncredited_settlement_amount(list, local_scale, TRUE)
        m == LargestScale(Entries(list))
        S == TotalAt(Entries(list), m)
        left == Entries(r.list)
        remainder == IF left = <<>> THEN 0 ELSE left[1].amount
    IN  /\ r.err = ""
        /\ IF local_scale <= m
           THEN /\ Val(r.value) * Pow10(m - local_scale) <= S
                /\ S < (Val(r.value) + 1) * Pow10(m - local_scale)
                /\ Val(r.value) * Pow10(m - local_scale) + remainder = S
           ELSE Val(r.value) = S * Pow10(local_scale - m) /\ remainder = 0
        /\ r.list = (IF remainder > 0
                     THEN <<to_string(remainder),
                            to_string(IF local_scale > m THEN local_scale ELSE m)>>
                     ELSE <<>>)

\* C27: for every reachable list of saved entries and every local scale, load
\* returns the floor of the sum S (at the largest stored scale m) scaled to the
\* local scale, leaves exactly the remainder on the list, as
\* (remainder, max(local_scale, m)) when it is not zero, and the value
\* re-scaled to m plus the remainder is S; (12345, 9) and (6789, 6) loaded at
\* scale 6 give 6801 and leave (345, 9).
C27_LeftoverConservation ==
    /\ \A local_scale \in Scales : Conserved(leftovers, local_scale)
    /\ LET saved == AmountWithScale(12345, 9) \o AmountWithScale(6789, 6)
       IN  /\ load_uncredited_settlement_amount(saved, 6, TRUE)
                = Leftover(AmountWithScale(345, 9), "", Some(6801))
           /\ Conserved(saved, 6)

\* A load at a scale below the largest stored one has returned a value and left
\* a remainder at that largest scale.
C27_Witness ==
    /\ svc.op = "load_uncredited_settlement_amount"
    /\ svc.err = ""
    /\ Val(svc.value) > 0
    /\ Len(leftovers) = 2
    /\ DigitsValue(leftovers[1]) > 1
    /\ DigitsValue(leftovers[2]) > svc.args[1]

\* C28: on the empty list get_uncredited_settlement_amount returns Ok with the
\* amount 0 at the local scale of the caller, and load returns Ok with 0; both
\* leave the list empty.
C28_EmptyListGivesZeroAtLocalScale ==
    leftovers = <<>>
    => \A local_scale \in Scales :
          /\ get_uncredited_settlement_amount(leftovers, TRUE)
                = Leftover(<<>>, "", Some(<<0, local_scale>>))
          /\ load_uncredited_settlement_amount(leftovers, local_scale, TRUE)
                = Leftover(<<>>, "", Some(0))

\* C28 as the code has it: get returns the amount 0 at scale 0, whatever the
\* caller's scale; load returns 0; neither fails and the list stays empty.
C28_EmptyListGivesZero ==
    leftovers = <<>>
    => /\ get_uncredited_settlement_amount(leftovers, TRUE)
             = Leftover(<<>>, "", Some(<<0, 0>>))
       /\ \A local_scale \in Scales :
             load_uncredited_settlement_amount(leftovers, local_scale, TRUE)
                = Leftover(<<>>, "", Some(0))

\* A get and a load at a scale above 0 have run on the empty list.
C28_Witness ==
    /\ leftovers = <<>>
    /\ svc.op \in {"get_uncredited_settlement_amount", "load_uncredited_settlement_amount"}
    /\ svc.err = ""
    /\ svc.value \in {Some(<<0, 0>>), Some(0)}

\* ------------------------------------------- claims on the notification bus
\* The account that a channel name addresses, if it addresses one, and the
\* payment that a payload carries, if it carries one.
Addressed(channel) ==
    IF Len(channel) = 2 /\ channel[1] = "stream_notifications:"
       /\ channel[2] \in {"id1", "ID1", "id2", "ID2"}
    THEN Some(IF channel[2] \in {"id1", "ID1"} THEN "id1" ELSE "id2")
    ELSE None
Carried(payload) ==
    IF payload = <<"{", "alice", "}">> THEN Some([to_username |-> "alice"]) ELSE None

\* C29: the worker takes every pending message and stays subscribed whatever
\* the message; a message that addresses an account and carries a payment goes
\* to the broadcaster when it has a receiver, and to the open sink of exactly
\* that account, no other sink changing; any other message changes neither the
\* broadcaster nor a sink; and every pending message is handled in the end.
C29_WorkerHandlesEveryMessage ==
    /\ [][/\ bus'.worker = "subscribed"
          /\ svc'.op = "on_message" =>
               LET channel == svc'.args[1]
                   payload == svc'.args[2]
                   good == Addressed(channel) # None /\ Carried(payload) # None
               IN  /\ bus'.pending = Tail(bus.pending)
                   /\ svc'.value = Some("Continue")
                   /\ bus'.broadcast =
                        (IF good /\ bus.receivers > 0
                         THEN Append(bus.broadcast, Val(Carried(payload)))
                         ELSE bus.broadcast)
                   /\ DOMAIN bus'.subscriptions = DOMAIN bus.subscriptions
                   /\ \A id \in DOMAIN bus.subscriptions :
                        bus'.subscriptions[id] =
                          (IF good /\ id = Val(Addressed(channel)) /\ id \notin bus.closed
                           THEN Append(bus.subscriptions[id], Val(Carried(payload)))
                           ELSE bus.subscriptions[id])]_vars
    /\ (bus.pending # <<>>) ~> (bus.pending = <<>>)

\* The worker has delivered a message to the sink of its account, then taken
\* a message with a payload that does not deserialize for an account with an
\* open sink, and is still subscribed.
C29_Witness ==
    /\ svc.op = "on_message"
    /\ svc.args = <<<<"stream_notifications:", "ID2">>, <<"{", "alice">>>>
    /\ bus.worker = "subscribed"
    /\ "id1" \in DOMAIN bus.subscriptions
    /\ bus.subscriptions["id1"] = <<[to_username |-> "alice"]>>
    /\ "id2" \in DOMAIN bus.subscriptions \ bus.closed
    /\ bus.subscriptions["id2"] = <<>>

\* ------------------------------------------- claims on routes after an update
\* The addresses that routes:current routes to an account.
RoutedTo(db, id) == {a \in DOMAIN db.routes_current : db.routes_current[a] = id}

\* C30: in every reachable state of the registry, an update_account that
\* succeeds writes the entry new address -> id to routes:current and removes
\* no entry: the addresses routed to the account are the ones from before and
\* the new one, and the refreshed routing table still routes every one of
\* them to the account.
C30_UpdateKeepsOldRoutes ==
    \A id \in Ids, details \in RegistryDetails :
        LET r == update_account(kv, routes, id, details)
        IN  r.err = ""
            => /\ RoutedTo(r.db, id) = RoutedTo(kv, id) \cup {details.ilp_address}
               /\ \A a \in DOMAIN kv.routes_current \ {details.ilp_address} :
                     /\ a \in DOMAIN r.db.routes_current
                     /\ r.db.routes_current[a] = kv.routes_current[a]
               /\ \A a \in RoutedTo(r.db, id) : a \in DOMAIN r.routes /\ r.routes[a] = id

\* An update has changed the address of an account, and routes:current and the
\* routing table route the old and the new address to it.
C30_Witness ==
    /\ reg.op = "update_account"
    /\ reg.err = ""
    /\ \E id \in Ids :
          /\ Cardinality(RoutedTo(kv, id)) = 2
          /\ \A a \in RoutedTo(kv, id) : a \in DOMAIN routes /\ routes[a] = id

\* ------------------------------------------------ claims on prepares in flight
RECURSIVE SumOf(_)
SumOf(seq) == IF seq = <<>> THEN 0 ELSE Head(seq) + SumOf(Tail(seq))

\* C31: at any point the sum of the prepares in flight (prepared, neither
\* fulfilled nor rejected) is the sum of the debits that prepares took from
\* the sender minus the sum that rejects restored.
C31_InFlightIsDebitsMinusRejects ==
    SumOf(svc.value.inflight) = svc.value.debited - svc.value.restored

\* C31 with the fulfilled prepares counted: the sum of the prepares in flight
\* is the debits of prepares minus what rejects restored minus the amounts of
\* the prepares fulfilled since; rejects never restore more than was debited.
C31_InFlightIsDebitsMinusRejectsMinusFulfilled ==
    /\ SumOf(svc.value.inflight)
          = svc.value.debited - svc.value.restored - svc.value.fulfilled
    /\ svc.value.debited - svc.value.restored >= 0

\* Prepares have been debited, one of them rejected, one fulfilled and one is
\* still in flight.
C31_Witness ==
    /\ svc.value.restored > 0
    /\ svc.value.fulfilled > 0
    /\ SumOf(svc.value.inflight) > 0

\* ------------------------------------------------ claims on the expiry shortener
\* The request forwarded for a request, with the expiry earlier by both round
\* trip times and at most max_expiry_duration after now.
Shortened(max_expiry_duration, request, now) ==
    LET by_round_trips == request.prepare.expires_at
                          - (request.from.round_trip_time + request.to.round_trip_time)
        latest == now + max_expiry_duration
    IN  [request EXCEPT !.prepare.expires_at =
            IF by_round_trips < latest THEN by_round_trips ELSE latest]

\* C32: every request is forwarded with the expiry
\* min(expiry - (from.round_trip_time + to.round_trip_time), now +
\* max_expiry_duration) and nothing else changed, and the result of the next
\* service is returned as it is.
C32_ExpiryShortened ==
    svc.op = "send_request"
    => /\ svc.err = ""
       /\ svc.value = <<Some(Shortened(svc.args[1], svc.args[2], svc.args[3])),
                        Some(svc.args[4])>>

\* The same for the requests whose two round trip times add up within u32.
C32_ExpiryShortenedWithoutOverflow ==
    (svc.op = "send_request"
       /\ svc.args[2].from.round_trip_time + svc.args[2].to.round_trip_time <= U32_MAX)
    => /\ svc.err = ""
       /\ svc.value = <<Some(Shortened(svc.args[1], svc.args[2], svc.args[3])),
                        Some(svc.args[4])>>

\* ------------------------------------------- claims on failed setting changes
\* C33: a modify_account_settings call on an id without account fails with
\* AccountNotFound and writes nothing: the backend is as before and the key
\* accounts:{id} still does not exist.
C33_FailedModifyWritesNothing ==
    \A id \in Ids, settings \in RegistrySettings :
        LET r == redis_modify_account(kv, routes, id, settings)
        IN  ~exists_accounts_key(kv, id)
            => /\ r.err = "AccountNotFound"
               /\ r.db = kv
               /\ ~exists_accounts_key(r.db, id)

\* The part of C33 on settle_to: a call with settle_to above i64::MAX fails
\* with InvalidAccount and leaves the account hash as it was.
C33_TooLargeSettleToWritesNothing ==
    \A settle_threshold \in {None, Some(3)}, settle_to \in I64_MAX + 1 .. U64_MAX :
        modify_account_settings(redis, settle_threshold, Some(settle_to))
            = Returned(redis, "InvalidAccount", <<>>, <<>>)

\* ------------------------------------------ claims on what routes reference
\* The ids that the static routes, the default route, the routing sets and
\* the routing table cache reference.
Referenced ==
    {kv.routes_static[p] : p \in DOMAIN kv.routes_static}
    \cup (IF IsSome(kv.routes_default) THEN {Val(kv.routes_default)} ELSE {})
    \cup kv.send_routes_to \cup kv.receive_routes_from \cup kv.btp_outgoing
    \cup {routes[p] : p \in DOMAIN routes}

\* C34: in every reachable state, every id referenced by routes:static,
\* routes:default, the routing sets and the routing table cache is the id of
\* an existing account.
C34_RoutesReferenceExistingAccounts ==
    \A id \in Referenced : exists_accounts_key(kv, id)

\* The state that C34 excludes for delete_account: the call returned Ok and a
\* static route or the default route still points to an id without account.
C34_DeleteLeftRoute ==
    /\ reg.op = "delete_account"
    /\ reg.err = ""
    /\ \E id \in Ids :
          /\ ~exists_accounts_key(kv, id)
          /\ \/ \E p \in DOMAIN kv.routes_static : kv.routes_static[p] = id
             \/ kv.routes_default = Some(id)
          /\ \E p \in DOMAIN routes : routes[p] = id

\* ------------------------------------------------ claims on concurrent inserts
\* C35: whatever the interleaving of the insert_account calls of two clients,
\* no two existing accounts have the same username, the usernames map points
\* to the one account that has the name, and no two existing accounts are
\* Parents.
C35_ConcurrentInsertsStayUnique ==
    \A a, b \in Ids :
        (a # b /\ exists_accounts_key(kv, a) /\ exists_accounts_key(kv, b))
        => /\ kv.hash[a].username # kv.hash[b].username
           /\ ~(kv.hash[a].routing_relation = Some("Parent")
                  /\ kv.hash[b].routing_relation = Some("Parent"))

\* Two clients have both inserted the name alice and both were answered Ok.
C35_BothInserted ==
    /\ exists_accounts_key(kv, "id1") /\ exists_accounts_key(kv, "id2")
    /\ kv.hash["id1"].username = Some("alice")
    /\ kv.hash["id2"].username = Some("alice")
    /\ \A c \in DOMAIN Inserters : svc.value[c].pc = "idle" /\ svc.value[c].err = ""

\* ---------------------------------------------------- claims on routing sets
\* C36: an id is in send_routes_to, receive_routes_from or btp_outgoing
\* exactly when its account exists and the record it has now qualifies: the
\* relation is Child or Peer, the relation is Parent or Peer, an outgoing BTP
\* url is set.
C36_RoutingSetsFollowRecord ==
    \A id \in Ids :
        LET hash == kv.hash[id]
            here == exists_accounts_key(kv, id)
        IN  /\ id \in kv.send_routes_to
               <=> (here /\ hash.routing_relation \in {Some("Child"), Some("Peer")})
            /\ id \in kv.receive_routes_from
               <=> (here /\ hash.routing_relation \in {Some("Parent"), Some("Peer")})
            /\ id \in kv.btp_outgoing
               <=> (here /\ IsSome(hash.ilp_over_btp_url))

\* update_account answered Ok and the account it wrote is in a set that its
\* record does not qualify for.
C36_UpdateLeftStaleMember ==
    /\ reg.op = "update_account" /\ reg.err = ""
    /\ \E id \in Existing :
          \/ id \in kv.send_routes_to
             /\ kv.hash[id].routing_relation \notin {Some("Child"), Some("Peer")}
          \/ id \in kv.btp_outgoing /\ ~IsSome(kv.hash[id].ilp_over_btp_url)

\* ---------------------------------------------- claims on the two rate limits
\* C37: for an account with both limits, when apply_rate_limits fails with
\* PacketLimitExceeded the throughput bucket is what it was before the call.
C37_PacketLimitedLeavesThroughput ==
    \A account \in LimitAccounts, amount \in 1 .. MaxAmount + 1 :
        LET r == apply_rate_limits(limits, account, amount, TRUE)
        IN  (/\ IsSome(account.packets_per_minute_limit)
             /\ IsSome(account.amount_per_minute_limit)
             /\ r.err = "PacketLimitExceeded")
            => r.buckets.throughput = limits.throughput

\* A call for an account with both limits was refused for its packets after
\* the throughput bucket took the amount of its packet.
C37_RefusedPacketWasCharged ==
    /\ svc.op = "apply_rate_limits"
    /\ svc.err = "PacketLimitExceeded"
    /\ IsSome(svc.args[1].amount_per_minute_limit)
    /\ svc.args[3]
    /\ limits.packets = Val(svc.args[1].packets_per_minute_limit)
    /\ limits.throughput = svc.args[2]

\* ------------------------------------- claims on overlapping refreshes
\* C38: with this store the only writer, a cache that shows the sources as
\* the last mutation left them is not changed by a step that writes nothing
\* to the backend: the poll task never installs a snapshot it read before the
\* mutation's write.
C38_CacheNeverGoesBack ==
    [][(routes = update_routes(kv) /\ kv' = kv) => routes' = routes]_vars

\* The poll task has just installed its table, and the table is not what the
\* sources hold.
C38_StaleTableInstalled ==
    /\ reg.op = "poll_routes"
    /\ poll.pc = "sleeping"
    /\ routes # update_routes(kv)

\* ------------------------------------- claims on the order of notifications
RECURSIVE IsSubsequence(_, _)
IsSubsequence(part, whole) ==
    IF part = <<>> THEN TRUE
    ELSE IF whole = <<>> THEN FALSE
    ELSE IF Head(part) = Head(whole) THEN IsSubsequence(Tail(part), Tail(whole))
    ELSE IsSubsequence(part, Tail(whole))

\* The notifications in the order of the calls that passed them, and in the
\* order in which the receiver of all_payment_subscription got them.
Passed == [i \in 1 .. Len(order) |-> [to_username |-> Val(tasks[order[i]].call.key)]]

C39_DeliveredOutOfOrder ==
    /\ Len(order) = 2
    /\ Passed = <<[to_username |-> "alice"], [to_username |-> "bob"]>>
    /\ bus.broadcast = <<[to_username |-> "bob"], [to_username |-> "alice"]>>

\* --------------------------- claims on saves and loads next to each other
\* What the loads that have got their amount and not yet returned hold, and
\* what the entries of the list hold, at the scale MaxScale.
RECURSIVE HeldBy(_)
HeldBy(loaders) ==
    IF loaders = {} THEN 0
    ELSE LET t == CHOOSE l \in loaders : TRUE
         IN  (IF tasks[t].pc = "got"
              THEN AtMaxScale(tasks[t].seen[1][1], tasks[t].seen[1][2]) ELSE 0)
             + HeldBy(loaders \ {t})
OnList == TotalAt(Entries(leftovers), MaxScale)

\* C40: whatever the interleaving of saves and loads, what the loads returned,
\* what the loads under way hold and what the entries of the list hold add up,
\* at one scale, to what was saved; with no load under way the returned values
\* and the entries alone add up to it.
C40_InterleavedLoadsConserve ==
    /\ svc.value[1] = svc.value[2] + HeldBy(Loaders) + OnList
    /\ (\A t \in Loaders : tasks[t].pc = "idle")
       => svc.value[1] = svc.value[2] + OnList

\* A load has returned an amount and pushed its precision loss behind an
\* entry that was saved between its two round trips; no load is under way.
C40_Witness ==
    /\ svc.op = "load_uncredited_settlement_amount"
    /\ svc.args[1] > 0
    /\ Len(leftovers) = svc.args[1] + 2
    /\ svc.value[2] > 0
    /\ \A t \in Loaders : tasks[t].pc = "idle"

====
